---- MODULE Spec2Model ----
(***************************************************************************)
(* Sports stats dashboard: the controller (app.js), the presentation       *)
(* layer's loading/error indicators (ui.js), the data source (api.js and   *)
(* its mock-only predecessor), debounce (utils.js) and the mock game       *)
(* generator, as one state machine with one specification per subsystem.   *)
(*                                                                         *)
(* JavaScript runs one task at a time: a handler runs from its start to    *)
(* its first pending await without interleaving, and a promise             *)
(* continuation (with every continuation it resolves in turn) runs as one  *)
(* microtask checkpoint.  Each action below is one such uninterrupted run. *)
(***************************************************************************)
EXTENDS Integers, Sequences, FiniteSets, TLC

VARIABLES
    state,      \* app.js `state`: currentLeague, allData, isLoading, autoRefreshInterval
    ui,         \* DOM state written by ui.js: indicators, error text, dimming, rendered data
    fetches,    \* fetchAllData calls awaited by a suspended loadData, oldest first
    timers,     \* ids of the interval timers that are active (setInterval minus clearInterval)
    page,       \* "loading" (before init), "init" (initial load awaited), "ready", "unloaded"
    counters,   \* [fetch, timer]: fetchAllData calls started, timer ids handed out
    env,        \* what is fixed for one page load: API module, API key, Chart.js loaded
    lastOp,     \* history variable: the step taken last
    call,       \* data source: one fetchAllData call and its three sub-fetches
    deb,        \* debounce: the closure's `timeout`, the timer queue, clock and call logs
    gen,        \* generateMockGames: its locals (i, games, usedPairs, homeTeam, awayTeam, pairKey)
    fn          \* a utility function called on its own: the arguments and results of its calls

ctlVars == <<state, ui, fetches, timers, page, counters, env, lastOp>>
vars == <<state, ui, fetches, timers, page, counters, env, lastOp, call, deb, gen, fn>>

(***************************************************************************)
(* Bounds of the model.                                                    *)
(***************************************************************************)
MaxFetches == 3     \* fetchAllData calls started in one run of the controller
MaxTimers == 3      \* interval timers created in one run
MaxSeed == 1        \* random tapes 0..MaxSeed for the mock generators
MaxTime == 6        \* clock ticks in a debounce run
MaxRoster == 4      \* roster length in a generateMockGames run
MaxCount == 3       \* `count` in a generateMockGames run

(***************************************************************************)
(* JavaScript values.  An optional value (possibly undefined) is a set     *)
(* with at most one element.  NaN is a number no computation of the model  *)
(* produces otherwise.                                                     *)
(***************************************************************************)
\* The element of a one-element set.
Only(S) == CHOOSE x \in S : TRUE

None == {}
Some(x) == {x}
Get(o) == CHOOSE x \in o : TRUE
NaN == 0 - 1
Null == [null |-> TRUE]

\* a || b on numbers: undefined, 0 and NaN are falsy
OrNum(o, b) == IF o = None \/ o = Some(0) \/ o = Some(NaN) THEN b ELSE Get(o)
\* a + b on possibly-undefined numbers
AddNum(a, b) == IF a = None \/ b = None THEN NaN ELSE Get(a) + Get(b)

\* String.prototype methods, on the characters of the string.
UpperCaseLetters == "ABCDEFGHIJKLMNOPQRSTUVWXYZ"
LowerCaseLetters == "abcdefghijklmnopqrstuvwxyz"

charAt(s, i) == SubSeq(s, i, i)

\* the letters of alphabet `from` mapped to those of alphabet `to`
caseMap(from, to) ==
    [c \in {charAt(from, i) : i \in 1..Len(from)} |->
        charAt(to, CHOOSE i \in 1..Len(from) : charAt(from, i) = c)]

upperOf == caseMap(LowerCaseLetters, UpperCaseLetters)
lowerOf == caseMap(UpperCaseLetters, LowerCaseLetters)

\* every letter the map knows replaced, every other character kept
RECURSIVE mapChars(_, _)
mapChars(s, map) ==
    IF s = "" THEN ""
    ELSE (IF charAt(s, 1) \in DOMAIN map THEN map[charAt(s, 1)] ELSE charAt(s, 1))
            \o mapChars(SubSeq(s, 2, Len(s)), map)

toUpperCase(s) == mapChars(s, upperOf)

toLowerCase(s) == mapChars(s, lowerOf)

\* trim(): the white space of the inputs is the space character
RECURSIVE trimStart(_)
trimStart(s) == IF s # "" /\ charAt(s, 1) = " " THEN trimStart(SubSeq(s, 2, Len(s))) ELSE s

RECURSIVE trimEnd(_)
trimEnd(s) ==
    IF s # "" /\ charAt(s, Len(s)) = " " THEN trimEnd(SubSeq(s, 1, Len(s) - 1)) ELSE s

trim(s) == trimEnd(trimStart(s))

\* s.includes(term)
includes(s, term) ==
    \E i \in 1..(Len(s) - Len(term) + 1) : SubSeq(s, i, i + Len(term) - 1) = term

(***************************************************************************)
(* Number.prototype.toFixed(3) of w/t for integers 0 <= w <= t, t > 0, in  *)
(* thousandths.  toFixed rounds the exact value of the double, ties to the *)
(* larger; it differs from rounding the exact quotient half up only where  *)
(* the quotient is a tie that the double lies below.                       *)
(***************************************************************************)
toFixed3(w, t) ==
    IF t = 80 /\ w \in {3, 7, 17, 19, 23, 29, 33, 39, 41, 43, 51, 53, 61, 63, 71, 73}
    THEN (1000 * w) \div t
    ELSE (2000 * w + t) \div (2 * t)

(***************************************************************************)
(* utils.js random pickers.  The argument r is the value of                *)
(* Math.floor(Math.random() * n), any integer of 0..n-1.                   *)
(***************************************************************************)
getRandomInt(min, max, r) == r + min

getRandomElement(array, r) == array[r + 1]

\* The draw k of random tape `seed`, an integer of 0..n-1.
Draw(seed, k, n) == (seed * 7 + k * 5 + seed * k) % n

Seeds == 0..MaxSeed

(***************************************************************************)
(* Numbers as strings.  A win percentage is held in thousandths.           *)
(***************************************************************************)
Digits == "0123456789"

\* the three decimals of toFixed(3)
pad3(n) ==
    charAt(Digits, ((n \div 100) % 10) + 1) \o charAt(Digits, ((n \div 10) % 10) + 1)
        \o charAt(Digits, (n % 10) + 1)

\* toFixed(3)'s string for a value of `thousandths`
fixed3(thousandths) == ToString(thousandths \div 1000) \o "." \o pad3(thousandths % 1000)

\* The variant without the test for no games: 0 / 0 is NaN.
calculateWinPercentageNoZeroTest(wins, losses) ==
    IF wins + losses = 0 THEN "NaN" ELSE fixed3(toFixed3(wins, wins + losses))

\* utils.js calculateWinPercentage, for integers wins, losses >= 0
calculateWinPercentage(wins, losses) ==
    LET total == wins + losses
    IN  IF total = 0 THEN "0.000" ELSE fixed3(toFixed3(wins, total))

\* String(x) of a number held in thousandths: no trailing zeros, no point on an integer
RECURSIVE stripZeros(_)
stripZeros(s) ==
    IF s # "" /\ charAt(s, Len(s)) = "0" THEN stripZeros(SubSeq(s, 1, Len(s) - 1)) ELSE s

numberString(thousandths) ==
    IF thousandths % 1000 = 0 THEN ToString(thousandths \div 1000)
    ELSE ToString(thousandths \div 1000) \o "." \o stripZeros(pad3(thousandths % 1000))

(***************************************************************************)
(* utils.js filterBySearch.  An item is a record; a property it lacks      *)
(* reads as undefined.  String(item[prop]) goes by the property's type:    *)
(* text, a count (NaN where the data made it so), or a win percentage.     *)
(***************************************************************************)
TextProperties == {"name", "homeTeam", "awayTeam", "status", "city"}

String(item, prop) ==
    IF prop \notin DOMAIN item THEN "undefined"
    ELSE IF prop \in TextProperties THEN item[prop]
    ELSE IF prop = "winPct" THEN numberString(item[prop])
    ELSE IF item[prop] = NaN THEN "NaN"
    ELSE ToString(item[prop])

\* The variant that compares the term as typed.
filterBySearchCaseSensitive(array, searchTerm, properties) ==
    LET term == trim(searchTerm)
    IN  IF term = "" THEN array
        ELSE SelectSeq(array, LAMBDA item :
                \E p \in 1..Len(properties) :
                    includes(toLowerCase(String(item, properties[p])), term))

filterBySearch(array, searchTerm, properties) ==
    LET term == trim(toLowerCase(searchTerm))
    IN  IF term = "" THEN array
        ELSE SelectSeq(array, LAMBDA item :
                \E p \in 1..Len(properties) :
                    includes(toLowerCase(String(item, properties[p])), term))

(***************************************************************************)
(* api.js: rosters.                                                        *)
(***************************************************************************)
NBA_TEAMS == <<"Lakers", "Celtics", "Warriors", "Nets", "Bucks", "Heat",
               "Suns", "Nuggets", "Mavericks", "Clippers", "76ers", "Raptors">>

NFL_TEAMS == <<"Chiefs", "Bills", "49ers", "Eagles", "Cowboys", "Bengals",
               "Patriots", "Packers", "Ravens", "Steelers", "Rams", "Seahawks">>

MLB_TEAMS == <<"Yankees", "Dodgers", "Red Sox", "Astros", "Braves", "Cubs",
               "Cardinals", "Giants", "Mets", "Phillies", "Rays", "Blue Jays">>

EPL_TEAMS == <<"Man City", "Arsenal", "Liverpool", "Chelsea", "Man United", "Tottenham",
               "Newcastle", "Brighton", "Aston Villa", "West Ham", "Leicester", "Everton">>

\* switch (league.toLowerCase()) of fetchStandings and fetchRecentGames
teamsFor(league) ==
    CASE toLowerCase(league) = "nba" -> NBA_TEAMS
      [] toLowerCase(league) = "nfl" -> NFL_TEAMS
      [] toLowerCase(league) = "mlb" -> MLB_TEAMS
      [] toLowerCase(league) = "epl" -> EPL_TEAMS
      [] OTHER -> NBA_TEAMS

\* Array.prototype.sort's default order (UTF-16 code units) on the roster names
SortedNames ==
    <<"49ers", "76ers", "Arsenal", "Aston Villa", "Astros", "Bengals", "Bills", "Blue Jays",
      "Braves", "Brighton", "Bucks", "Cardinals", "Celtics", "Chelsea", "Chiefs", "Clippers",
      "Cowboys", "Cubs", "Dodgers", "Eagles", "Everton", "Giants", "Heat", "Lakers",
      "Leicester", "Liverpool", "Man City", "Man United", "Mavericks", "Mets", "Nets",
      "Newcastle", "Nuggets", "Packers", "Patriots", "Phillies", "Rams", "Raptors", "Ravens",
      "Rays", "Red Sox", "Seahawks", "Steelers", "Suns", "Tottenham", "Warriors", "West Ham",
      "Yankees">>

Rank(name) == CHOOSE i \in 1..Len(SortedNames) : SortedNames[i] = name

(***************************************************************************)
(* api.js: configuration.  The key is what config-public.js or a local     *)
(* config.js (copied from the template) sets.                              *)
(***************************************************************************)
ApiKeys == {"null", "", "YOUR_API_KEY_HERE", "YOUR_MYSPORTSFEEDS_API_KEY_HERE", "k3y"}

\* The variant that knows one placeholder only.
isAPIConfiguredOnePlaceholder(key) ==
    /\ key \notin {"null", ""}
    /\ key # "YOUR_API_KEY_HERE"

\* "null" stands for the null of config-public.js; null and '' are falsy
isAPIConfigured(key) ==
    /\ key \notin {"null", ""}
    /\ key # "YOUR_API_KEY_HERE"
    /\ key # "YOUR_MYSPORTSFEEDS_API_KEY_HERE"

(***************************************************************************)
(* Settled promises.                                                       *)
(***************************************************************************)
Pending == [settled |-> FALSE]
Resolve(v) == [settled |-> TRUE, ok |-> TRUE, value |-> v, error |-> ""]
Reject(msg) == [settled |-> TRUE, ok |-> FALSE, value |-> Null, error |-> msg]

(***************************************************************************)
(* api.js: the real endpoint.  A response is what fetch() and              *)
(* response.json() give: fetch throws, a non-2xx status, a body that is    *)
(* not JSON, or a parsed body.  A body holds `standings` or `games`,       *)
(* each possibly undefined, and so are the fields of their entries.        *)
(***************************************************************************)
Team(id, abbreviation, city) == [id |-> id, abbreviation |-> abbreviation, city |-> city]
Stats(w, l, gp) == [wins |-> w, losses |-> l, gamesPlayed |-> gp]

StandingsBodies ==
    { [standings |-> None],
      [standings |-> Some(<<>>)],
      [standings |-> Some(<< [team |-> Some(Team(1, Some("LAL"), "Los Angeles")),
                              stats |-> Some(Stats(Some(10), Some(5), Some(15)))],
                            [team |-> Some(Team(2, None, "Boston")),
                              stats |-> Some(Stats(Some(7), Some(9), None))] >>)],
      [standings |-> Some(<< [team |-> Some(Team(3, Some("GSW"), "Golden State")),
                              stats |-> Some(Stats(None, None, None))] >>)],
      [standings |-> Some(<< [team |-> None,
                              stats |-> Some(Stats(Some(1), Some(1), Some(2)))] >>)],
      [standings |-> Some(<< [team |-> Some(Team(4, Some("BKN"), "Brooklyn")),
                              stats |-> None] >>)] }

Schedule(id, home, away, played) ==
    [id |-> id, homeTeam |-> home, awayTeam |-> away, playedStatus |-> played]

GamesBodies ==
    { [games |-> None],
      [games |-> Some(<< [schedule |-> Some(Schedule(1, "LAL", "BOS", "COMPLETED")),
                          score |-> Some([homeScoreTotal |-> 101, awayScoreTotal |-> 99])],
                        [schedule |-> Some(Schedule(2, "GSW", "BKN", "UNPLAYED")),
                          score |-> None] >>)],
      [games |-> Some(<< [schedule |-> None, score |-> None] >>)] }

Responses(bodies) ==
    { [kind |-> "throw", detail |-> "Failed to fetch", body |-> Null],
      [kind |-> "status", detail |-> "500 Internal Server Error", body |-> Null],
      [kind |-> "badjson", detail |-> "Unexpected end of JSON input", body |-> Null] }
    \cup { [kind |-> "json", detail |-> "", body |-> b] : b \in bodies }

\* fetch(url) ... if (!response.ok) throw ...; return await response.json()
fetchFromMySportsFeeds(resp) ==
    CASE resp.kind = "throw" -> Reject(resp.detail)
      [] resp.kind = "status" -> Reject("API Error: " \o resp.detail)
      [] resp.kind = "badjson" -> Reject(resp.detail)
      [] OTHER -> Resolve(resp.body)

\* the URL fetchFromMySportsFeeds requests
endpointUrl(endpoint, league) ==
    "https://api.mysportsfeeds.com/v2.1/pull" \o "/" \o league \o "/"
        \o "2024-2025-regular" \o "/" \o endpoint \o ".json"

(***************************************************************************)
(* api.js: mock generators.  Streak, points, scores and dates are drawn    *)
(* independently of everything modelled here and are left out of the       *)
(* records.                                                                *)
(***************************************************************************)
mockTeam(name, index, wins, losses) ==
    [id |-> index + 1, name |-> name, wins |-> wins, losses |-> losses,
     winPct |-> toFixed3(wins, wins + losses), gamesPlayed |-> wins + losses]

generateMockTeams(teams, seed) ==
    [i \in 1..Len(teams) |->
        mockTeam(teams[i], i - 1,
                 getRandomInt(5, 45, Draw(seed, 2 * i, 41)),
                 getRandomInt(5, 45, Draw(seed, 2 * i + 1, 41)))]

\* The variant that joins the pair unsorted.
pairKeyUnsorted(homeTeam, awayTeam) == homeTeam \o "-" \o awayTeam

\* [homeTeam, awayTeam].sort().join('-')
pairKey(homeTeam, awayTeam) ==
    IF Rank(homeTeam) <= Rank(awayTeam)
    THEN homeTeam \o "-" \o awayTeam
    ELSE awayTeam \o "-" \o homeTeam

GenStart(teams, count) ==
    [teams |-> teams, count |-> count, i |-> 0, games |-> <<>>, usedPairs |-> {},
     homeTeam |-> "", awayTeam |-> "", pairKey |-> "",
     pc |-> IF 0 < count THEN "loop" ELSE "return"]

\* teams.filter(t => t !== homeTeam)
othersThan(teams, homeTeam) == SelectSeq(teams, LAMBDA t : t # homeTeam)

\* The variant without the do-while test: the first matchup drawn is taken.
mockGamesIterNoRetry(g, rh, ra) ==
    LET homeTeam == getRandomElement(g.teams, rh)
        awayTeam == getRandomElement(othersThan(g.teams, homeTeam), ra)
        key == pairKey(homeTeam, awayTeam)
    IN  [g EXCEPT
            !.homeTeam = homeTeam, !.awayTeam = awayTeam, !.pairKey = key,
            !.usedPairs = g.usedPairs \cup {key},
            !.games = Append(g.games, [id |-> g.i + 1, homeTeam |-> homeTeam,
                                        awayTeam |-> awayTeam, status |-> "final"]),
            !.i = g.i + 1,
            !.pc = IF g.i + 1 < g.count THEN "loop" ELSE "return"]

\* One pass of the do-while body with its test: draw a matchup; when the pair
\* is new, record it and push the game (the rest of the for body).
mockGamesIter(g, rh, ra) ==
    LET homeTeam == getRandomElement(g.teams, rh)
        awayTeam == getRandomElement(othersThan(g.teams, homeTeam), ra)
        key == pairKey(homeTeam, awayTeam)
        drawn == [g EXCEPT !.homeTeam = homeTeam, !.awayTeam = awayTeam, !.pairKey = key]
    IN  IF key \in g.usedPairs
        THEN drawn
        ELSE [drawn EXCEPT
                !.usedPairs = g.usedPairs \cup {key},
                !.games = Append(g.games, [id |-> g.i + 1, homeTeam |-> homeTeam,
                                            awayTeam |-> awayTeam, status |-> "final"]),
                !.i = g.i + 1,
                !.pc = IF g.i + 1 < g.count THEN "loop" ELSE "return"]

\* generateMockGames run on random tape `seed` from draw k on
RECURSIVE runMockGames(_, _, _)
runMockGames(g, seed, k) ==
    IF g.pc = "return" \/ k > 200
    THEN g.games
    ELSE runMockGames(
            mockGamesIter(g, Draw(seed, 2 * k, Len(g.teams)),
                             Draw(seed, 2 * k + 1, Len(g.teams) - 1)),
            seed, k + 1)

generateMockGames(teams, count, seed) == runMockGames(GenStart(teams, count), seed, 0)

(***************************************************************************)
(* api.js: fetchStandings, fetchRecentGames, fetchDashboardStats.  Each is *)
(* a function of what its run meets: the configured key, the real          *)
(* endpoint's response and the random tape.                                *)
(***************************************************************************)
\* data.standings.map(...) throws a TypeError on an undefined list, team or stats
standingsThrows(data) ==
    \/ data.standings = None
    \/ \E i \in 1..Len(Get(data.standings)) :
          \/ Get(data.standings)[i].team = None
          \/ Get(data.standings)[i].stats = None

transformStanding(standing) ==
    LET team == Get(standing.team)
        stats == Get(standing.stats)
        total == AddNum(stats.wins, stats.losses)
    IN  [id |-> team.id,
         name |-> IF team.abbreviation \in {None, Some("")}
                  THEN team.city ELSE Get(team.abbreviation),
         wins |-> OrNum(stats.wins, 0),
         losses |-> OrNum(stats.losses, 0),
         winPct |-> IF total = NaN \/ total = 0
                    THEN 0 ELSE toFixed3(Get(stats.wins), total),
         gamesPlayed |-> OrNum(stats.gamesPlayed, total)]

StandingsResult(league, data, source) ==
    Resolve([success |-> TRUE, data |-> data, league |-> toUpperCase(league),
             source |-> source])

mockStandings(league, seed) ==
    StandingsResult(league, generateMockTeams(teamsFor(league), seed), Some("Mock Data"))

\* The variant a slip in the inner catch would give: the real endpoint's error rethrown.
fetchStandingsRethrow(league, key, resp, seed) ==
    LET real == fetchFromMySportsFeeds(resp)
    IN  IF ~isAPIConfigured(key) THEN mockStandings(league, seed)
        ELSE IF ~real.ok THEN Reject(real.error)
        ELSE IF standingsThrows(real.value) THEN Reject("TypeError")
        ELSE StandingsResult(league,
                [i \in 1..Len(Get(real.value.standings)) |->
                    transformStanding(Get(real.value.standings)[i])],
                Some("MySportsFeeds"))

fetchStandings(league, key, resp, seed) ==
    LET real == fetchFromMySportsFeeds(resp)
    IN  IF isAPIConfigured(key) /\ real.ok /\ ~standingsThrows(real.value)
        THEN StandingsResult(league,
                [i \in 1..Len(Get(real.value.standings)) |->
                    transformStanding(Get(real.value.standings)[i])],
                Some("MySportsFeeds"))
        ELSE mockStandings(league, seed)

\* data.games.slice(0, 6).map(...) throws on an undefined list or schedule;
\* score is read through ?. and may be undefined
gamesThrows(data) ==
    \/ data.games = None
    \/ \E i \in 1..Len(Get(data.games)) : Get(data.games)[i].schedule = None

transformGame(game) ==
    LET schedule == Get(game.schedule)
    IN  [id |-> schedule.id,
         homeTeam |-> schedule.homeTeam,
         awayTeam |-> schedule.awayTeam,
         status |-> IF schedule.playedStatus = "COMPLETED" THEN "final" ELSE "scheduled"]

fetchRecentGames(league, key, resp, seed) ==
    LET real == fetchFromMySportsFeeds(resp)
    IN  IF isAPIConfigured(key) /\ real.ok /\ ~gamesThrows(real.value)
        THEN LET first6 == SubSeq(Get(real.value.games), 1,
                                  IF Len(Get(real.value.games)) < 6
                                  THEN Len(Get(real.value.games)) ELSE 6)
             IN  Resolve([success |-> TRUE,
                          data |-> [i \in 1..Len(first6) |-> transformGame(first6[i])],
                          league |-> toUpperCase(league),
                          source |-> Some("MySportsFeeds")])
        ELSE Resolve([success |-> TRUE,
                      data |-> generateMockGames(teamsFor(league), 6, seed),
                      league |-> toUpperCase(league),
                      source |-> Some("Mock Data")])

fetchDashboardStats(league, seed) ==
    Resolve([success |-> TRUE,
             data |-> [totalTeams |-> 12,
                       gamesToday |-> getRandomInt(3, 8, Draw(seed, 1, 6)),
                       topScorer |-> getRandomElement(
                            <<"LeBron James", "Stephen Curry", "Kevin Durant",
                              "Giannis Antetokounmpo">>, Draw(seed, 2, 4)),
                       avgScore |-> getRandomInt(105, 115, Draw(seed, 3, 11))],
             league |-> toUpperCase(league),
             source |-> None])

(***************************************************************************)
(* The mock-only API module (the earlier api.js): no real endpoint, and a  *)
(* simulated error with probability 0.05 in standings and games.           *)
(***************************************************************************)
mockFetchStandings(league, inject, seed) ==
    IF inject
    THEN Reject("Network error: Unable to fetch standings")
    ELSE StandingsResult(league, generateMockTeams(teamsFor(league), seed), None)

mockFetchRecentGames(league, inject, seed) ==
    IF inject
    THEN Reject("Network error: Unable to fetch games")
    ELSE Resolve([success |-> TRUE,
                  data |-> generateMockGames(teamsFor(league), 6, seed),
                  league |-> toUpperCase(league),
                  source |-> None])

(***************************************************************************)
(* What one sub-fetch of fetchAllData meets, and what it settles with.     *)
(***************************************************************************)
ApiModules == {"api", "mockApi"}
SubSet == {"standings", "games", "stats"}

NoResponse == [kind |-> "none", detail |-> "", body |-> Null]

\* The inputs that make a difference to sub-fetch `name` under module m and key.
SubInputs(name, m, key) ==
    LET resps == IF m = "api" /\ isAPIConfigured(key) /\ name # "stats"
                 THEN Responses(IF name = "standings" THEN StandingsBodies ELSE GamesBodies)
                 ELSE {NoResponse}
        injects == IF m = "mockApi" /\ name # "stats" THEN BOOLEAN ELSE {FALSE}
    IN  [resp : resps, inject : injects, seed : Seeds]

subFetch(name, m, key, league, in) ==
    CASE name = "standings" /\ m = "api" -> fetchStandings(league, key, in.resp, in.seed)
      [] name = "standings" /\ m # "api" -> mockFetchStandings(league, in.inject, in.seed)
      [] name = "games" /\ m = "api" -> fetchRecentGames(league, key, in.resp, in.seed)
      [] name = "games" /\ m # "api" -> mockFetchRecentGames(league, in.inject, in.seed)
      [] OTHER -> fetchDashboardStats(league, in.seed)

\* The real-endpoint requests the three sub-fetches issue before their first await.
requestsIssued(m, key, league) ==
    IF m = "api" /\ isAPIConfigured(key)
    THEN <<endpointUrl("standings", league), endpointUrl("games", league)>>
    ELSE <<>>

(***************************************************************************)
(* Promise.all over the three sub-fetches: `results` maps each name to its *)
(* promise, `order` lists the settled ones in the order they settled.      *)
(***************************************************************************)
\* The variant Promise.allSettled-like code would give: it waits for all and keeps
\* what resolved.
promiseAllSettled(results, order) ==
    IF Len(order) < 3 THEN Pending ELSE Resolve(results)

promiseAll(results, order) ==
    LET rejected == {i \in 1..Len(order) : ~results[order[i]].ok}
        first == CHOOSE i \in rejected : \A j \in rejected : i <= j
    IN  IF rejected # {} THEN Reject(results[order[first]].error)
        ELSE IF Len(order) = 3 THEN Resolve(results)
        ELSE Pending

dataOf(r) == IF r.settled /\ r.ok THEN r.value.data ELSE Null

fetchAllData(league, results, order, now) ==
    LET all == promiseAll(results, order)
    IN  IF ~all.settled THEN Pending
        ELSE IF ~all.ok THEN Reject(all.error)
        ELSE Resolve([success |-> TRUE,
                      standings |-> dataOf(all.value["standings"]),
                      games |-> dataOf(all.value["games"]),
                      stats |-> dataOf(all.value["stats"]),
                      league |-> toUpperCase(league),
                      timestamp |-> now])

(***************************************************************************)
(* Data source runs: one fetchAllData call at a time, its sub-fetches      *)
(* settling in any order.                                                  *)
(***************************************************************************)
ApiLeagues == {"nba", "NBA", "nfl", "epl", "nhl"}

ApiOff == [phase |-> "off"]

ApiInit == call = [phase |-> "idle"]

AllPending == [n \in SubSet |-> Pending]

\* fetchAllData(league) is called: the three sub-fetches start.
ApiCall(m, key, league) ==
    /\ call.phase # "off"
    /\ call.phase = "running" => Len(call.order) = 3
    /\ call' = [phase |-> "running", module |-> m, key |-> key, league |-> league,
                requests |-> requestsIssued(m, key, league),
                inputs |-> [n \in SubSet |-> Null],
                results |-> AllPending,
                order |-> <<>>,
                result |-> Pending]
    /\ UNCHANGED <<ctlVars, deb, gen, fn>>

\* One sub-fetch settles; the continuation of Promise.all and of fetchAllData
\* runs in the same microtask checkpoint.  A settled promise stays as it is.
SubSettle(name) ==
    /\ call.phase = "running"
    /\ ~call.results[name].settled
    /\ \E in \in SubInputs(name, call.module, call.key) :
          LET results == [call.results EXCEPT
                            ![name] = subFetch(name, call.module, call.key, call.league, in)]
              order == Append(call.order, name)
          IN  call' = [call EXCEPT
                         !.inputs[name] = in,
                         !.results = results,
                         !.order = order,
                         !.result = IF call.result.settled THEN call.result
                                    ELSE fetchAllData(call.league, results, order, 0)]
    /\ UNCHANGED <<ctlVars, deb, gen, fn>>

ApiNext ==
    \/ \E m \in ApiModules, key \in ApiKeys, league \in ApiLeagues : ApiCall(m, key, league)
    \/ \E name \in SubSet : SubSettle(name)

(***************************************************************************)
(* What a fetchAllData call of the controller can settle with: the three   *)
(* sub-fetches run on one random tape, meet a failing or a well-formed     *)
(* real endpoint (api.js with a key) or injected errors (mock-only         *)
(* module), and settle in any order.                                       *)
(***************************************************************************)
Orders ==
    { <<"standings", "games", "stats">>, <<"standings", "stats", "games">>,
      <<"games", "standings", "stats">>, <<"games", "stats", "standings">>,
      <<"stats", "standings", "games">>, <<"stats", "games", "standings">> }

GoodBody(name) ==
    IF name = "standings"
    THEN CHOOSE b \in StandingsBodies : b.standings # None /\ Len(Get(b.standings)) = 2
    ELSE CHOOSE b \in GamesBodies : b.games # None /\ Len(Get(b.games)) = 2

CtlResponse(name, m, key, good) ==
    IF m = "api" /\ isAPIConfigured(key) /\ name # "stats"
    THEN IF good THEN [kind |-> "json", detail |-> "", body |-> GoodBody(name)]
         ELSE [kind |-> "throw", detail |-> "Failed to fetch", body |-> Null]
    ELSE NoResponse

CtlSubInputs(m, key) ==
    { [n \in SubSet |-> [resp |-> CtlResponse(n, m, key, good),
                         inject |-> n \in injected,
                         seed |-> 0]] :
        good \in IF m = "api" /\ isAPIConfigured(key) THEN BOOLEAN ELSE {FALSE},
        injected \in IF m = "mockApi" THEN SUBSET {"standings", "games"} ELSE {{}} }

CtlLeagues == {"nba", "nfl"}

CtlKeys == {"null", "k3y"}

\* Every outcome of fetchAllData(league) started as fetch number `now`, per
\* module and key.
OutcomeTable ==
    [m \in ApiModules, key \in CtlKeys, league \in CtlLeagues, now \in 1..(MaxFetches + 1) |->
        { fetchAllData(league,
                       [n \in SubSet |-> subFetch(n, m, key, league, ins[n])],
                       order, now) :
            ins \in CtlSubInputs(m, key), order \in Orders }]

CtlOutcomes(league, now) == OutcomeTable[env.apiModule, env.apiKey, league, now]

(***************************************************************************)
(* The search queries and the datasets of the model, and the filtered      *)
(* views handleSearch builds from them.                                    *)
(***************************************************************************)
\* What the search field holds when handleSearch runs.
Queries == {"", "  ", " La ", "gs"}

\* Every dataset a load of the controller can store in state.allData.
Datasets ==
    { outcome.value :
        outcome \in { o \in UNION {OutcomeTable[k] : k \in DOMAIN OutcomeTable} : o.ok } }

\* The variant that filters the games by the home team only.
searchViewHomeOnly(allData, query) ==
    [stats |-> allData.stats,
     standings |-> filterBySearch(allData.standings, query, <<"name">>),
     games |-> filterBySearch(allData.games, query, <<"homeTeam">>)]

\* The object handleSearch hands to updateUI for a non-empty query.
searchView(allData, query) ==
    [stats |-> allData.stats,
     standings |-> filterBySearch(allData.standings, query, <<"name">>),
     games |-> filterBySearch(allData.games, query, <<"homeTeam", "awayTeam">>)]

\* searchView of every dataset and query of the model, computed once.
SearchViews ==
    [allData \in Datasets, query \in {trim(value) : value \in Queries} |->
        searchView(allData, query)]

(***************************************************************************)
(* ui.js: the loading and error indicators.  `hidden` is the CSS class of  *)
(* the element; the elements exist in the page.                            *)
(***************************************************************************)
showLoading(u) == [u EXCEPT !.loadingHidden = FALSE, !.errorHidden = TRUE, !.opacity = "0.5"]

\* The variant that leaves the content dimmed.
hideLoadingDimmed(u) == [u EXCEPT !.loadingHidden = TRUE]

hideLoading(u) == [u EXCEPT !.loadingHidden = TRUE, !.opacity = "1"]

\* The variant that forgets the loading indicator.
showErrorOnly(u, message) == [u EXCEPT !.errorText = message, !.errorHidden = FALSE]

showError(u, message) ==
    [u EXCEPT !.errorText = message, !.errorHidden = FALSE, !.loadingHidden = TRUE]

hideError(u) == [u EXCEPT !.errorHidden = TRUE]

showNotification(u, message, type) == [u EXCEPT !.toast = [message |-> message, type |-> type]]

(***************************************************************************)
(* ui.js utilities: sortByProperty.  An array is an object the caller and  *)
(* the callee share: a function here gives back, next to its result, the   *)
(* argument array as the call leaves it.                                   *)
(***************************************************************************)
\* a[property]: a property the records here do not carry (points) reads
\* undefined, and `undefined < undefined` is false as it is for equal numbers.
keyOf(item, property) == IF property \in DOMAIN item THEN item[property] ELSE 0

\* The comparator gives -1 for (a, b): a goes before b.
goesBefore(a, b, property, ascending) ==
    IF ascending
    THEN ~(keyOf(a, property) > keyOf(b, property))
    ELSE ~(keyOf(a, property) < keyOf(b, property))

\* Array.prototype.sort with this comparator: a team with the better key goes
\* first; of two teams with the same key the comparator puts whichever it is
\* asked about first before the other, and the insertion sort the engine runs on
\* a short array asks about the later one.  `place` is where each team ends up.
sort(array, property, ascending) ==
    LET n == Len(array)
        place == [i \in 1..n |->
                    1 + Cardinality({j \in 1..n :
                            /\ j # i
                            /\ goesBefore(array[j], array[i], property, ascending)
                            /\ (j < i => ~goesBefore(array[i], array[j], property, ascending))})]
    IN  [p \in 1..n |-> array[CHOOSE i \in 1..n : place[i] = p]]

\* The variant that sorts the array it was handed.
sortByPropertyInPlace(array, property, ascending) ==
    [sorted |-> sort(array, property, ascending),
     array |-> sort(array, property, ascending)]

\* [...array].sort(...): the copy is sorted, the argument is left as it was.
sortByProperty(array, property, ascending) ==
    [sorted |-> sort(array, property, ascending), array |-> array]

\* The standings arrays fetchStandings gives the controller's loads.
LoadedStandings ==
    { dataOf(fetchStandings(league, key, CtlResponse("standings", "api", key, good), 0)) :
        league \in CtlLeagues, key \in CtlKeys, good \in BOOLEAN }

\* The standings arrays the renderers of the model are handed: the loaded ones
\* and what handleSearch filters out of them.
StandingsArrays ==
    UNION { {array} \cup {filterBySearch(array, trim(value), <<"name">>) : value \in Queries} :
                array \in LoadedStandings }

\* sortByProperty(array, property, false) of these arrays, computed once.
SortTable ==
    [array \in StandingsArrays, property \in {"winPct", "points"} |->
        sortByProperty(array, property, FALSE)]

sortDescending(array, property) ==
    Only({ IF <<array, property>> \in DOMAIN table
           THEN table[array, property]
           ELSE sortByProperty(array, property, FALSE) :
           table \in {SortTable} })

\* The chart instances: `charts` holds the instances that are live (constructed
\* and not destroyed), performanceChart and scoringChart the module's two
\* references.  new Chart(...) gives an instance no live or referenced chart is.
newChart(u) ==
    CHOOSE n \in 1..(Cardinality(u.charts) + 3) :
        /\ \A c \in u.charts : c.id # n
        /\ Some(n) \notin {u.performanceChart, u.scoringChart}
        /\ \A m \in 1..(n - 1) :
              \/ \E c \in u.charts : c.id = m
              \/ Some(m) \in {u.performanceChart, u.scoringChart}

\* chart.destroy() of the instance a reference holds
destroy(u, ref) == [u EXCEPT !.charts = {c \in u.charts : Some(c.id) # ref}]

\* topTeams: sortByProperty(...).slice(0, 6) plots at most six teams; a chart
\* keeps how many.
topTeams(sorted) == IF Len(sorted) < 6 THEN Len(sorted) ELSE 6

\* The variant that builds the new chart without destroying the old one.
createPerformanceChartLeaky(u, standings, chartLoaded) ==
    IF chartLoaded
    THEN [ui |-> [u EXCEPT
                    !.charts = u.charts \cup {[id |-> newChart(u),
                                               canvas |-> "performance-chart",
                                               teams |-> topTeams(standings)]},
                    !.performanceChart = Some(newChart(u))],
          threw |-> FALSE,
          events |-> <<"new Chart performance-chart">>,
          standings |-> standings]
    ELSE [ui |-> u, threw |-> TRUE, events |-> <<>>, standings |-> standings]

\* new Chart throws a ReferenceError when Chart.js did not load.
createPerformanceChart(u, standings, chartLoaded) ==
    LET had == u.performanceChart # None
        cleared == IF had THEN destroy(u, u.performanceChart) ELSE u
        gone == IF had THEN <<"destroy performance-chart">> ELSE <<>>
    IN  Only({ IF chartLoaded
               THEN [ui |-> [cleared EXCEPT
                               !.charts = cleared.charts
                                            \cup {[id |-> newChart(cleared),
                                                   canvas |-> "performance-chart",
                                                   teams |-> topTeams(top.sorted)]},
                               !.performanceChart = Some(newChart(cleared))],
                     threw |-> FALSE,
                     events |-> Append(gone, "new Chart performance-chart"),
                     standings |-> top.array]
               ELSE [ui |-> cleared, threw |-> TRUE, events |-> gone,
                     standings |-> top.array] :
               top \in {sortDescending(standings, "winPct")} })

createScoringChart(u, standings, chartLoaded) ==
    LET had == u.scoringChart # None
        cleared == IF had THEN destroy(u, u.scoringChart) ELSE u
        gone == IF had THEN <<"destroy scoring-chart">> ELSE <<>>
    IN  Only({ IF chartLoaded
               THEN [ui |-> [cleared EXCEPT
                               !.charts = cleared.charts
                                            \cup {[id |-> newChart(cleared),
                                                   canvas |-> "scoring-chart",
                                                   teams |-> topTeams(top.sorted)]},
                               !.scoringChart = Some(newChart(cleared))],
                     threw |-> FALSE,
                     events |-> Append(gone, "new Chart scoring-chart"),
                     standings |-> top.array]
               ELSE [ui |-> cleared, threw |-> TRUE, events |-> gone,
                     standings |-> top.array] :
               top \in {sortDescending(standings, "points")} })

\* updateUI: the summary and the standings table are written, then the two charts
\* are built, then the games list.  stats, standings and games of every caller
\* are objects and arrays, which are truthy.  `shown` holds what each renderer
\* was last handed, if it ran at all; a throw leaves the later renderers undone.
\* renderStandings and the two chart builders each sort data.standings;
\* `standings` is that array as updateUI leaves it.  listed, perf and scor are
\* what the three calls returned, each made once.
updateUI(u, data, chartLoaded) ==
    LET written == [u EXCEPT !.shown.stats = Some(data.stats),
                             !.shown.standings = Some(data.standings)]
        rendered(perf, scor) ==
            IF perf.threw
            THEN [ui |-> perf.ui, threw |-> TRUE, error |-> "Chart is not defined",
                  events |-> perf.events, standings |-> perf.standings]
            ELSE IF scor.threw
            THEN [ui |-> scor.ui, threw |-> TRUE, error |-> "Chart is not defined",
                  events |-> perf.events \o scor.events, standings |-> scor.standings]
            ELSE [ui |-> [scor.ui EXCEPT !.shown.games = Some(data.games)],
                  threw |-> FALSE, error |-> "",
                  events |-> perf.events \o scor.events, standings |-> scor.standings]
        charted(perf) ==
            Only({ rendered(perf, scor) :
                     scor \in {createScoringChart(perf.ui, perf.standings, chartLoaded)} })
        listedThen(listed) ==
            Only({ charted(perf) :
                     perf \in {createPerformanceChart(written, listed.array, chartLoaded)} })
    IN  Only({ listedThen(listed) : listed \in {sortDescending(data.standings, "winPct")} })

(***************************************************************************)
(* app.js: the controller.  A world is everything a handler reads and      *)
(* writes.                                                                 *)
(***************************************************************************)
World ==
    [state |-> state, ui |-> ui, timers |-> timers, counters |-> counters, page |-> page,
     trace |-> <<>>]

\* What a step did, for lastOp: `trace` lists the calls the step made, in order.
Did(op, arg, load, error, w) ==
    [op |-> op, arg |-> arg, load |-> load, error |-> error, trace |-> w.trace]

\* showNotification called by a handler
notify(w, message, type) ==
    [w EXCEPT !.ui = showNotification(w.ui, message, type),
              !.trace = Append(w.trace, "showNotification " \o message)]

Apply(w) ==
    /\ state' = w.state
    /\ ui' = w.ui
    /\ timers' = w.timers
    /\ counters' = w.counters
    /\ page' = w.page

Truthy(o) == o # None /\ o # Some(0)

\* The variant without the isLoading guard.
loadDataUnguarded(w) ==
    [w |-> [w EXCEPT !.state.isLoading = TRUE, !.ui = hideError(showLoading(w.ui)),
                     !.trace = w.trace \o <<"loadData", "fetchAllData">>],
     started |-> TRUE]

\* loadData up to its await: `started` says whether fetchAllData was called.
loadData(w) ==
    IF w.state.isLoading
    THEN [w |-> [w EXCEPT !.trace = Append(w.trace, "loadData")], started |-> FALSE]
    ELSE [w |-> [w EXCEPT !.state.isLoading = TRUE, !.ui = hideError(showLoading(w.ui)),
                          !.trace = w.trace \o <<"loadData", "fetchAllData">>],
          started |-> TRUE]

\* The variant whose cleanup runs on the success path only.
loadDataSettledNoFinally(w, outcome, chartLoaded) ==
    LET drawn == updateUI(w.ui, outcome.value, chartLoaded)
        withData == [w EXCEPT !.state.allData = [outcome.value EXCEPT
                                                    !.standings = drawn.standings],
                              !.trace = Append(w.trace, "updateUI") \o drawn.events]
    IN  IF outcome.ok /\ ~drawn.threw
        THEN [withData EXCEPT !.ui = hideLoading(drawn.ui), !.state.isLoading = FALSE]
        ELSE IF outcome.ok
        THEN [withData EXCEPT
                !.ui = showError(hideLoading(drawn.ui), "Failed to load data: " \o drawn.error)]
        ELSE [w EXCEPT
                !.ui = showError(hideLoading(w.ui), "Failed to load data: " \o outcome.error)]

\* The variant whose catch shows the error without ending the loading display.
loadDataSettledStillLoading(w, outcome, chartLoaded) ==
    LET drawn == updateUI(w.ui, outcome.value, chartLoaded)
        withData == [w EXCEPT !.state.allData = [outcome.value EXCEPT
                                                    !.standings = drawn.standings],
                              !.trace = Append(w.trace, "updateUI") \o drawn.events]
    IN  IF outcome.ok /\ ~drawn.threw
        THEN [withData EXCEPT !.ui = hideLoading(drawn.ui), !.state.isLoading = FALSE]
        ELSE IF outcome.ok
        THEN [withData EXCEPT
                !.ui = showError(drawn.ui, "Failed to load data: " \o drawn.error),
                !.state.isLoading = FALSE]
        ELSE [w EXCEPT
                !.ui = showError(w.ui, "Failed to load data: " \o outcome.error),
                !.state.isLoading = FALSE]

\* The variant whose catch forgets the dataset.
loadDataSettledForgets(w, outcome, chartLoaded) ==
    LET drawn == updateUI(w.ui, outcome.value, chartLoaded)
        withData == [w EXCEPT !.state.allData = [outcome.value EXCEPT
                                                    !.standings = drawn.standings],
                              !.trace = Append(w.trace, "updateUI") \o drawn.events]
    IN  IF outcome.ok /\ ~drawn.threw
        THEN [withData EXCEPT !.ui = hideLoading(drawn.ui), !.state.isLoading = FALSE]
        ELSE IF outcome.ok
        THEN [withData EXCEPT
                !.ui = showError(hideLoading(drawn.ui), "Failed to load data: " \o drawn.error),
                !.state.isLoading = FALSE]
        ELSE [w EXCEPT
                !.ui = showError(hideLoading(w.ui), "Failed to load data: " \o outcome.error),
                !.state.allData = Null,
                !.state.isLoading = FALSE]

\* loadData from its await on: the try body, the catch, the finally.
\* state.allData is the object updateUI is handed.
loadDataSettled(w, outcome, chartLoaded) ==
    LET drawn == updateUI(w.ui, outcome.value, chartLoaded)
        withData == [w EXCEPT !.state.allData = [outcome.value EXCEPT
                                                    !.standings = drawn.standings],
                              !.trace = Append(w.trace, "updateUI") \o drawn.events]
    IN  IF outcome.ok /\ ~drawn.threw
        THEN [withData EXCEPT !.ui = hideLoading(drawn.ui), !.state.isLoading = FALSE]
        ELSE IF outcome.ok
        THEN [withData EXCEPT
                !.ui = showError(hideLoading(drawn.ui), "Failed to load data: " \o drawn.error),
                !.state.isLoading = FALSE]
        ELSE [w EXCEPT
                !.ui = showError(hideLoading(w.ui), "Failed to load data: " \o outcome.error),
                !.state.isLoading = FALSE]

\* The variant that does not clear the previous interval.
setupAutoRefreshLeaky(w) ==
    [w EXCEPT !.timers = w.timers \cup {w.counters.timer + 1},
              !.state.autoRefreshInterval = Some(w.counters.timer + 1),
              !.counters.timer = w.counters.timer + 1,
              !.trace = Append(w.trace, "setInterval")]

\* setInterval hands out the next positive id.
setupAutoRefresh(w) ==
    LET cleared == IF Truthy(w.state.autoRefreshInterval)
                   THEN w.timers \ w.state.autoRefreshInterval
                   ELSE w.timers
    IN  [w EXCEPT !.timers = cleared \cup {w.counters.timer + 1},
                  !.state.autoRefreshInterval = Some(w.counters.timer + 1),
                  !.counters.timer = w.counters.timer + 1,
                  !.trace = IF Truthy(w.state.autoRefreshInterval)
                            THEN w.trace \o <<"clearInterval", "setInterval">>
                            ELSE Append(w.trace, "setInterval")]

\* The variant that reports success only when no error is shown.
afterLoadDataOnSuccess(caller, w) ==
    CASE caller = "init" -> [setupAutoRefresh(w) EXCEPT !.page = "ready"]
      [] caller = "refresh" ->
            IF w.ui.errorHidden THEN notify(w, "Data refreshed successfully!", "success") ELSE w
      [] OTHER -> w

\* What the caller of loadData does once `await loadData()` returns.
afterLoadData(caller, w) ==
    CASE caller = "init" -> [setupAutoRefresh(w) EXCEPT !.page = "ready"]
      [] caller = "refresh" -> notify(w, "Data refreshed successfully!", "success")
      [] OTHER -> w

\* The variant that starts auto-refresh before the initial load.
initTimerFirst(w) ==
    setupAutoRefresh([w EXCEPT !.page = "init", !.trace = Append(w.trace, "setupEventListeners")])

\* init up to `await loadData()`
init(w) == [w EXCEPT !.page = "init", !.trace = Append(w.trace, "setupEventListeners")]

\* handleRefresh up to `await loadData()`
refreshPrelude(w) == notify(w, "Refreshing data...", "info")

\* The variant without the same-league test.
handleLeagueChangeUnguarded(w, newLeague) ==
    [w |-> notify([w EXCEPT !.state.currentLeague = newLeague,
                            !.trace = Append(w.trace, "currentLeague = " \o newLeague)],
                  "Switching to " \o toUpperCase(newLeague) \o "...", "info"),
     loads |-> TRUE]

\* The variant that announces the league without storing it.
handleLeagueChangeNotStored(w, newLeague) ==
    IF newLeague = w.state.currentLeague
    THEN [w |-> w, loads |-> FALSE]
    ELSE [w |-> notify(w, "Switching to " \o toUpperCase(newLeague) \o "...", "info"),
          loads |-> TRUE]

\* handleLeagueChange up to `await loadData()`: `loads` says whether it gets there.
leagueChangePrelude(w, newLeague) ==
    IF newLeague = w.state.currentLeague
    THEN [w |-> w, loads |-> FALSE]
    ELSE [w |-> notify([w EXCEPT !.state.currentLeague = newLeague,
                                 !.trace = Append(w.trace, "currentLeague = " \o newLeague)],
                       "Switching to " \o toUpperCase(newLeague) \o "...", "info"),
          loads |-> TRUE]

(***************************************************************************)
(* app.js: handleSearch.                                                   *)
(***************************************************************************)
\* The variant that restores nothing on an empty query.
handleSearchNoRestore(w, value, chartLoaded) ==
    LET query == trim(value)
        allData == w.state.allData
        view == SearchViews[allData, query]
        drawn == updateUI(w.ui, view, chartLoaded)
        rendered == [w EXCEPT !.ui = drawn.ui,
                              !.trace = Append(w.trace, "updateUI") \o drawn.events]
    IN  IF allData = Null \/ query = "" THEN w
        ELSE IF drawn.threw THEN notify(rendered, "Search failed", "error")
        ELSE IF Len(view.standings) = 0 /\ Len(view.games) = 0
        THEN notify(rendered, "No results found", "error")
        ELSE rendered

\* handleSearch on event.target.value.  On an empty query the dataset is handed
\* to updateUI outside the try: a throw there leaves the handler (its promise
\* rejects) with what updateUI had written.  On another query updateUI is
\* handed a new object whose arrays filter() made.
handleSearch(w, value, chartLoaded) ==
    LET query == trim(value)
        allData == w.state.allData
        full == updateUI(w.ui, allData, chartLoaded)
        view == SearchViews[allData, query]
        drawn == updateUI(w.ui, view, chartLoaded)
        rendered == [w EXCEPT !.ui = drawn.ui,
                              !.trace = Append(w.trace, "updateUI") \o drawn.events]
    IN  IF allData = Null THEN w
        ELSE IF query = ""
        THEN [w EXCEPT !.ui = full.ui, !.state.allData.standings = full.standings,
                       !.trace = Append(w.trace, "updateUI") \o full.events]
        ELSE IF drawn.threw THEN notify(rendered, "Search failed", "error")
        ELSE IF Len(view.standings) = 0 /\ Len(view.games) = 0
        THEN notify(rendered, "No results found", "error")
        ELSE rendered

(***************************************************************************)
(* Controller actions.                                                     *)
(***************************************************************************)
NoToast == [message |-> "", type |-> ""]

CtlOff ==
    /\ state = Null /\ ui = Null /\ fetches = <<>> /\ timers = {}
    /\ page = "off" /\ counters = Null /\ env = Null /\ lastOp = Null

\* The module's top-level code has run; init has not.  Both indicators carry
\* the `hidden` class in the page as served.
CtlInit ==
    /\ state = [currentLeague |-> "nba", allData |-> Null, isLoading |-> FALSE,
                autoRefreshInterval |-> None]
    /\ ui = [loadingHidden |-> TRUE, errorHidden |-> TRUE, errorText |-> "", opacity |-> "",
             toast |-> NoToast, searchInput |-> "",
             shown |-> [stats |-> None, standings |-> None, games |-> None],
             performanceChart |-> None, scoringChart |-> None, charts |-> {}]
    /\ fetches = <<>>
    /\ timers = {}
    /\ page = "loading"
    /\ counters = [fetch |-> 0, timer |-> 0]
    /\ env \in {e \in [apiModule : ApiModules, apiKey : CtlKeys, chartLoaded : BOOLEAN] :
                    e.apiModule = "mockApi" => e.apiKey = "null"}
    /\ lastOp = Did("load", "", "none", "", World)

Listening == page \in {"init", "ready"}

\* A handler whose prelude left world w calls loadData and awaits it.
CallLoadData(caller, w, op, arg) ==
    LET begun == loadData(w)
        after == afterLoadData(caller, begun.w)
    IN  IF begun.started
        THEN /\ counters.fetch < MaxFetches
             /\ Apply([begun.w EXCEPT !.counters.fetch = counters.fetch + 1])
             /\ fetches' = Append(fetches, [id |-> counters.fetch + 1,
                                             league |-> begun.w.state.currentLeague,
                                             caller |-> caller])
             /\ lastOp' = Did(op, arg, "started", "", begun.w)
        ELSE /\ Apply(after)
             /\ fetches' = fetches
             /\ lastOp' = Did(op, arg, "skipped", "", after)

\* init: setupEventListeners(), then the initial load
InitApp ==
    /\ page = "loading"
    /\ CallLoadData("init", init(World), "init", "")
    /\ UNCHANGED <<env, call, deb, gen, fn>>

handleRefresh ==
    /\ Listening
    /\ CallLoadData("refresh", refreshPrelude(World), "handleRefresh", "")
    /\ UNCHANGED <<env, call, deb, gen, fn>>

handleRetry ==
    /\ Listening
    /\ CallLoadData("retry", [World EXCEPT !.ui = hideError(ui)], "handleRetry", "")
    /\ UNCHANGED <<env, call, deb, gen, fn>>

handleLeagueChange(newLeague) ==
    /\ Listening
    /\ LET prelude == leagueChangePrelude(World, newLeague)
       IN  IF prelude.loads
           THEN CallLoadData("league", prelude.w, "handleLeagueChange", newLeague)
           ELSE /\ Apply(prelude.w)
                /\ fetches' = fetches
                /\ lastOp' = Did("handleLeagueChange", newLeague, "none", "", prelude.w)
    /\ UNCHANGED <<env, call, deb, gen, fn>>

\* the search button's click, or the debounced input event: handleSearch runs
\* with what the search field holds, which is `value` from now on
SearchEvent(value) ==
    /\ Listening
    /\ LET typed == [World EXCEPT !.ui.searchInput = value]
           searched == handleSearch(typed, value, env.chartLoaded)
       IN  /\ Apply(searched)
           /\ lastOp' = Did("handleSearch", value, "none", "", searched)
    /\ UNCHANGED <<fetches, env, call, deb, gen, fn>>

\* the interval callback of setupAutoRefresh
AutoRefreshTick ==
    /\ Listening
    /\ timers # {}
    /\ CallLoadData("timer", World, "autoRefresh", "")
    /\ UNCHANGED <<env, call, deb, gen, fn>>

\* fetchAllData settles: the awaiting loadData resumes, then its caller.
FetchSettle(i) ==
    /\ Listening
    /\ i \in 1..Len(fetches)
    /\ \E outcome \in CtlOutcomes(fetches[i].league, fetches[i].id) :
          LET settled == loadDataSettled(World, outcome, env.chartLoaded)
              after == afterLoadData(fetches[i].caller, settled)
          IN  /\ Apply(after)
              /\ lastOp' = Did("loadData", fetches[i].caller,
                               IF ~outcome.ok THEN "rejected"
                               ELSE IF env.chartLoaded THEN "resolved" ELSE "threw",
                               outcome.error, after)
    /\ fetches' = [j \in 1..(Len(fetches) - 1) |->
                      IF j < i THEN fetches[j] ELSE fetches[j + 1]]
    /\ UNCHANGED <<env, call, deb, gen, fn>>

\* the beforeunload listener; nothing of the page runs afterwards
Unload ==
    /\ Listening
    /\ timers' = IF Truthy(state.autoRefreshInterval)
                 THEN timers \ state.autoRefreshInterval ELSE timers
    /\ page' = "unloaded"
    /\ lastOp' = Did("beforeunload", "", "none", "", World)
    /\ UNCHANGED <<state, ui, fetches, counters, env, call, deb, gen, fn>>

CtlNext ==
    \/ InitApp
    \/ handleRefresh
    \/ handleRetry
    \/ \E newLeague \in CtlLeagues : handleLeagueChange(newLeague)
    \/ AutoRefreshTick
    \/ \E i \in 1..Len(fetches) : FetchSettle(i)
    \/ Unload

SearchNext ==
    \/ CtlNext
    \/ \E value \in Queries : SearchEvent(value)

(***************************************************************************)
(* Direct calls of the exported indicator functions and of                 *)
(* setupAutoRefresh, as a test of the functions would make them.           *)
(***************************************************************************)
ErrorMessages == {"Search failed"}

CallShowLoading ==
    /\ Listening
    /\ ui' = showLoading(ui)
    /\ lastOp' = Did("call", "", "none", "", World)
    /\ UNCHANGED <<state, fetches, timers, page, counters, env, call, deb, gen, fn>>

CallHideLoading ==
    /\ Listening
    /\ ui' = hideLoading(ui)
    /\ lastOp' = Did("call", "", "none", "", World)
    /\ UNCHANGED <<state, fetches, timers, page, counters, env, call, deb, gen, fn>>

CallShowError(message) ==
    /\ Listening
    /\ ui' = showError(ui, message)
    /\ lastOp' = Did("call", "", "none", "", World)
    /\ UNCHANGED <<state, fetches, timers, page, counters, env, call, deb, gen, fn>>

CallHideError ==
    /\ Listening
    /\ ui' = hideError(ui)
    /\ lastOp' = Did("call", "", "none", "", World)
    /\ UNCHANGED <<state, fetches, timers, page, counters, env, call, deb, gen, fn>>

CallSetupAutoRefresh ==
    /\ page = "ready"
    /\ counters.timer < MaxTimers
    /\ Apply(setupAutoRefresh(World))
    /\ lastOp' = Did("call", "", "none", "", World)
    /\ UNCHANGED <<fetches, env, call, deb, gen, fn>>

HarnessNext ==
    \/ CtlNext
    \/ CallShowLoading
    \/ CallHideLoading
    \/ \E message \in ErrorMessages : CallShowError(message)
    \/ CallHideError
    \/ CallSetupAutoRefresh

(***************************************************************************)
(* Direct calls of the exported updateUI, createPerformanceChart and       *)
(* createScoringChart, between the controller's own steps.                 *)
(***************************************************************************)
\* The data of a direct call is the dataset the controller holds, itself.
CallUpdateUI(data) ==
    /\ Listening
    /\ LET drawn == updateUI(ui, data, env.chartLoaded)
       IN  /\ ui' = drawn.ui
           /\ state' = [state EXCEPT !.allData.standings = drawn.standings]
           /\ lastOp' = Did("call", "updateUI", "none", drawn.error,
                            [World EXCEPT !.trace = drawn.events])
    /\ UNCHANGED <<fetches, timers, page, counters, env, call, deb, gen, fn>>

CallCreatePerformanceChart(standings) ==
    /\ Listening
    /\ LET made == createPerformanceChart(ui, standings, env.chartLoaded)
       IN  /\ ui' = made.ui
           /\ state' = [state EXCEPT !.allData.standings = made.standings]
           /\ lastOp' = Did("call", "createPerformanceChart", "none", "",
                            [World EXCEPT !.trace = made.events])
    /\ UNCHANGED <<fetches, timers, page, counters, env, call, deb, gen, fn>>

CallCreateScoringChart(standings) ==
    /\ Listening
    /\ LET made == createScoringChart(ui, standings, env.chartLoaded)
       IN  /\ ui' = made.ui
           /\ state' = [state EXCEPT !.allData.standings = made.standings]
           /\ lastOp' = Did("call", "createScoringChart", "none", "",
                            [World EXCEPT !.trace = made.events])
    /\ UNCHANGED <<fetches, timers, page, counters, env, call, deb, gen, fn>>

ChartNext ==
    \/ CtlNext
    \/ state.allData # Null /\ CallUpdateUI(state.allData)
    \/ state.allData # Null /\ CallCreatePerformanceChart(state.allData.standings)
    \/ state.allData # Null /\ CallCreateScoringChart(state.allData.standings)

(***************************************************************************)
(* generateMockGames run step by step: each step is one pass of the        *)
(* do-while, with any two random draws.                                    *)
(***************************************************************************)
GenOff == [pc |-> "off"]

Rosters == {NBA_TEAMS, MLB_TEAMS}

GenInit ==
    gen \in { GenStart(SubSeq(roster, 1, p[1]), p[2]) :
                roster \in Rosters,
                p \in {q \in (2..MaxRoster) \X (1..MaxCount) : 2 * q[2] <= q[1] * (q[1] - 1)} }

GenStep ==
    /\ gen.pc = "loop"
    /\ \E rh \in 0..(Len(gen.teams) - 1) :
          \E ra \in 0..(Len(othersThan(gen.teams, getRandomElement(gen.teams, rh))) - 1) :
              gen' = mockGamesIter(gen, rh, ra)
    /\ UNCHANGED <<ctlVars, call, deb, fn>>

GenReturn ==
    /\ gen.pc = "return"
    /\ gen' = [gen EXCEPT !.pc = "done"]
    /\ UNCHANGED <<ctlVars, call, deb, fn>>

GenNext == GenStep \/ GenReturn

MaxTeams == 3       \* roster length in a run that is followed to its end
MaxGames == 3       \* `count` in such a run

\* Runs on every count from 0 on, also those above the one pair of a roster of
\* two teams.
GenAnyInit ==
    gen \in { GenStart(SubSeq(roster, 1, n), count) :
                roster \in Rosters, n \in 2..MaxTeams, count \in 0..MaxGames }

\* The passes of the do-while that draw a pair not used yet.
GenFresh == GenStep /\ gen'.i = gen.i + 1

(***************************************************************************)
(* utils.js debounce, on a clock of ticks.  A timer is due `wait` ticks    *)
(* after setTimeout and runs at its due tick, before any other event of    *)
(* that tick.  bursts, burstLen, last, execs and lastExec are history.     *)
(***************************************************************************)
MaxWait == 3        \* `wait` of a debounce run, in ticks
MaxCalls == 5       \* invocations of the debounced function in one run

DebArgs == {"a", "b"}

DebOff == [wait |-> 0]

DebInit ==
    deb \in { [wait |-> wait, timeout |-> None, queue |-> {}, nextId |-> 1, now |-> 0,
               invoked |-> 0, bursts |-> 0, burstLen |-> 0,
               last |-> [at |-> 0, args |-> ""],
               execs |-> 0, lastExec |-> [at |-> 0, args |-> ""]] : wait \in 1..MaxWait }

\* clearTimeout(id): an undefined or stale id clears nothing
clearTimeout(queue, id) == {t \in queue : Some(t.id) # id}

\* The variant that does not cancel the pending call.
executedFunctionNoClear(d, args) ==
    [d EXCEPT !.timeout = Some(d.nextId),
              !.queue = d.queue \cup {[id |-> d.nextId, due |-> d.now + d.wait, args |-> args]},
              !.nextId = d.nextId + 1]

\* executedFunction(...args): clearTimeout(timeout); timeout = setTimeout(later, wait)
executedFunction(d, args) ==
    [d EXCEPT !.timeout = Some(d.nextId),
              !.queue = clearTimeout(d.queue, d.timeout)
                            \cup {[id |-> d.nextId, due |-> d.now + d.wait, args |-> args]},
              !.nextId = d.nextId + 1]

\* later of timer t: clearTimeout(timeout); func(...args)
later(d, t) ==
    [d EXCEPT !.queue = clearTimeout(d.queue \ {t}, d.timeout),
              !.execs = d.execs + 1,
              !.lastExec = [at |-> d.now, args |-> t.args]]

TimerDue == \E t \in deb.queue : t.due <= deb.now

DebInvoke(args) ==
    /\ deb.wait > 0
    /\ deb.invoked < MaxCalls
    /\ ~TimerDue
    /\ LET newBurst == deb.invoked = 0 \/ deb.now - deb.last.at >= deb.wait
       IN  deb' = [executedFunction(deb, args) EXCEPT
                      !.invoked = deb.invoked + 1,
                      !.bursts = IF newBurst THEN deb.bursts + 1 ELSE deb.bursts,
                      !.burstLen = IF newBurst THEN 1 ELSE deb.burstLen + 1,
                      !.last = [at |-> deb.now, args |-> args]]
    /\ UNCHANGED <<ctlVars, call, gen, fn>>

DebFire ==
    /\ deb.wait > 0
    /\ \E t \in deb.queue :
          /\ t.due <= deb.now
          /\ deb' = later(deb, t)
    /\ UNCHANGED <<ctlVars, call, gen, fn>>

DebTick ==
    /\ deb.wait > 0
    /\ deb.now < MaxTime
    /\ ~TimerDue
    /\ deb' = [deb EXCEPT !.now = deb.now + 1]
    /\ UNCHANGED <<ctlVars, call, gen, fn>>

DebNext ==
    \/ \E args \in DebArgs : DebInvoke(args)
    \/ DebFire
    \/ DebTick

(***************************************************************************)
(* Utility functions called on their own: calculateWinPercentage on any    *)
(* two counts, some calls in a row.                                        *)
(***************************************************************************)
MaxWins == 45       \* wins and losses of a calculateWinPercentage call
MaxPctCalls == 2    \* further calls after the first in one run

FnOff == [name |-> "off"]

PctInit ==
    fn \in { [name |-> "calculateWinPercentage", wins |-> wins, losses |-> losses,
              log |-> << [wins |-> wins, losses |-> losses,
                          result |-> calculateWinPercentage(wins, losses)] >>] :
                wins \in 0..MaxWins, losses \in 0..MaxWins }

\* One more call: with the arguments of the first call, or with the two swapped.
PctCall(swapped) ==
    /\ fn.name = "calculateWinPercentage"
    /\ Len(fn.log) <= MaxPctCalls
    /\ LET wins == IF swapped THEN fn.losses ELSE fn.wins
           losses == IF swapped THEN fn.wins ELSE fn.losses
       IN  fn' = [fn EXCEPT !.log = Append(fn.log,
                                [wins |-> wins, losses |-> losses,
                                 result |-> calculateWinPercentage(wins, losses)])]
    /\ UNCHANGED <<ctlVars, call, deb, gen>>

PctNext == \E swapped \in BOOLEAN : PctCall(swapped)

(***************************************************************************)
(* filterBySearch called on its own: arrays of items with a text property, *)
(* a numeric property and items that lack the numeric one.                 *)
(***************************************************************************)
MaxItems == 2       \* length of the array of a filterBySearch call

Items ==
    { [name |-> "Lakers", wins |-> 12],
      [name |-> "Celtics", wins |-> 45],
      [name |-> "LA Clippers"] }

SearchTerms == {"", "   ", " LA ", "la c", "Ke", "1", "und", "zzz"}

PropertyLists == { <<>>, <<"name">>, <<"wins">>, <<"name", "wins">> }

Arrays == UNION { [1..n -> Items] : n \in 0..MaxItems }

FilterInit ==
    fn \in { [name |-> "filterBySearch", pc |-> "call", array |-> array,
              searchTerm |-> searchTerm, properties |-> properties, result |-> <<>>] :
                array \in Arrays, searchTerm \in SearchTerms, properties \in PropertyLists }

FilterCall ==
    /\ fn.name = "filterBySearch"
    /\ fn.pc = "call"
    /\ fn' = [fn EXCEPT !.pc = "done",
                        !.result = filterBySearch(fn.array, fn.searchTerm, fn.properties)]
    /\ UNCHANGED <<ctlVars, call, deb, gen>>

FilterNext == FilterCall

(***************************************************************************)
(* Specifications.                                                         *)
(***************************************************************************)
Init == CtlInit /\ call = ApiOff /\ deb = DebOff /\ gen = GenOff /\ fn = FnOff
Next == CtlNext
Spec == Init /\ [][Next]_vars

\* The steps of FetchSettle(i), told by what they do to the pending fetches:
\* no other step of the controller takes one away.
Settles(i) ==
    /\ Listening
    /\ i \in 1..Len(fetches)
    /\ fetches' = [j \in 1..(Len(fetches) - 1) |->
                      IF j < i THEN fetches[j] ELSE fetches[j + 1]]

\* A fetch that was started settles while the page lives: the mock delay is a
\* timer, and the real endpoint answers or fails.
FairSpec == Spec /\ \A i \in 1..MaxFetches : WF_fetches(Settles(i))

\* The controller with the search field in use.
SearchSpec == Init /\ [][SearchNext]_vars

\* The controller with the charts also built by direct calls.
ChartSpec == Init /\ [][ChartNext]_vars

\* The direct calls are explored on the module whose loads can fail.
HarnessInit == Init /\ env.apiModule = "mockApi"
HarnessSpec == HarnessInit /\ [][HarnessNext]_vars

ApiSpecInit == CtlOff /\ ApiInit /\ deb = DebOff /\ gen = GenOff /\ fn = FnOff
ApiSpec == ApiSpecInit /\ [][ApiNext]_vars

DebounceInit == CtlOff /\ call = ApiOff /\ DebInit /\ gen = GenOff /\ fn = FnOff
DebounceSpec == DebounceInit /\ [][DebNext]_vars

GamesInit == CtlOff /\ call = ApiOff /\ deb = DebOff /\ GenInit /\ fn = FnOff
GamesSpec == GamesInit /\ [][GenNext]_vars

\* Math.random() gives every matchup a positive chance on every pass, so a pair
\* that is not used yet is drawn sooner or later while there is one; and the
\* function returns when its loop is over.
FairGamesInit == CtlOff /\ call = ApiOff /\ deb = DebOff /\ GenAnyInit /\ fn = FnOff
FairGamesSpec == FairGamesInit /\ [][GenNext]_vars /\ WF_gen(GenFresh) /\ WF_gen(GenReturn)

PctSpecInit == CtlOff /\ call = ApiOff /\ deb = DebOff /\ gen = GenOff /\ PctInit
PctSpec == PctSpecInit /\ [][PctNext]_vars

FilterSpecInit == CtlOff /\ call = ApiOff /\ deb = DebOff /\ gen = GenOff /\ FilterInit
FilterSpec == FilterSpecInit /\ [][FilterNext]_vars

(***************************************************************************)
(* Properties.                                                             *)
(***************************************************************************)
Indicators == <<ui.loadingHidden, ui.errorHidden, ui.errorText, ui.opacity>>

LoadDataCaller ==
    \/ handleRefresh
    \/ handleRetry
    \/ AutoRefreshTick
    \/ \E newLeague \in CtlLeagues :
          newLeague # state.currentLeague /\ handleLeagueChange(newLeague)

\* C1: under any interleaving of the callers of loadData at most one fetchAllData
\* call is in flight, and a loadData call made while state.isLoading is true starts
\* no fetch and changes neither state.allData, state.isLoading nor an indicator
\* (nor state.currentLeague, which only the league handler itself sets).
C1_SingleFlight ==
    /\ [](Len(fetches) <= 1)
    /\ [][(state.isLoading /\ LoadDataCaller) =>
            /\ fetches' = fetches
            /\ counters' = counters
            /\ state'.allData = state.allData
            /\ state'.isLoading = state.isLoading
            /\ Indicators' = Indicators
            /\ (state'.currentLeague # state.currentLeague => lastOp'.op = "handleLeagueChange")
         ]_vars

C1_Witness == Len(fetches) = 1 /\ lastOp.load = "skipped" /\ lastOp.op = "autoRefresh"

\* C2: once state.isLoading is true it becomes false again, whether the fetch
\* resolves, rejects or the presentation update throws, as long as the fetch
\* settles (it cannot once the page is unloaded).
C2_LoadingClears == state.isLoading ~> (~state.isLoading \/ page = "unloaded")

C2_Witness == lastOp.op = "loadData" /\ lastOp.load = "threw" /\ ~state.isLoading

\* C3: after any sequence of setupAutoRefresh calls at most one interval timer is
\* active, and it is the one state.autoRefreshInterval holds.
C3_SingleTimer ==
    /\ Cardinality(timers) <= 1
    /\ timers \subseteq state.autoRefreshInterval
    /\ page = "ready" => timers = state.autoRefreshInterval /\ timers # {}

C3_Witness == page = "ready" /\ counters.timer = MaxTimers /\ Cardinality(timers) = 1

\* C4: the loading indicator and the error region are never both visible.
C4_Exclusive == ui.loadingHidden \/ ui.errorHidden

\* showError ran while the loading indicator was shown: the load is still in flight
\* and the content still dimmed, the error is visible and the indicator hidden.
C4_Witness ==
    /\ state.isLoading /\ Len(fetches) = 1
    /\ ~ui.errorHidden /\ ui.loadingHidden /\ ui.opacity = "0.5"

\* C5: when the fetch of loadData rejects with error e, then on return the error
\* region is visible with 'Failed to load data: ' and e's message, the loading
\* indicator is hidden, the dimming is lifted, and state.isLoading is false, so
\* that a retry starts a new load.
C5_RejectShown ==
    (lastOp.op = "loadData" /\ lastOp.load = "rejected") =>
        /\ ~ui.errorHidden
        /\ ui.errorText = "Failed to load data: " \o lastOp.error
        /\ ui.loadingHidden
        /\ ui.opacity = "1"
        /\ ~state.isLoading
        /\ loadData([World EXCEPT !.ui = hideError(ui)]).started

C5_Witness ==
    /\ lastOp.op = "loadData" /\ lastOp.load = "rejected"
    /\ lastOp.error = "Network error: Unable to fetch games"

Running == call.phase = "running"

SubRejected(n) == call.results[n].settled /\ ~call.results[n].ok
SubResolved(n) == call.results[n].settled /\ call.results[n].ok

\* C6: fetchAllData is all-or-nothing: once a sub-fetch has rejected the call is
\* rejected, and it resolves only when all three resolved, with the data of all
\* three.
C6_AllOrNothing ==
    Running =>
        /\ (\E n \in SubSet : SubRejected(n)) => call.result.settled /\ ~call.result.ok
        /\ (\A n \in SubSet : SubResolved(n)) => call.result.settled /\ call.result.ok
        /\ (call.result.settled /\ call.result.ok) =>
              /\ \A n \in SubSet : SubResolved(n)
              /\ call.result.value.standings = call.results["standings"].value.data
              /\ call.result.value.games = call.results["games"].value.data
              /\ call.result.value.stats = call.results["stats"].value.data

\* Two sub-fetches resolved and then one rejected.
C6_Witness ==
    /\ Running /\ Len(call.order) = 3
    /\ SubRejected(call.order[3]) /\ SubResolved(call.order[1]) /\ SubResolved(call.order[2])
    /\ ~call.result.ok

\* The real endpoint's answer is no usable standings: fetch threw, the status was
\* not 2xx, the body was not JSON, or the body lacks the standings list or the
\* team or stats object of an entry.
RealRequestFailed(resp) ==
    \/ resp.kind \in {"throw", "status", "badjson"}
    \/ /\ resp.kind = "json"
       /\ \/ resp.body.standings = None
          \/ \E i \in 1..Len(Get(resp.body.standings)) :
                \/ Get(resp.body.standings)[i].team = None
                \/ Get(resp.body.standings)[i].stats = None

MockStandingsOf(result, roster) ==
    /\ result.ok
    /\ result.value.success
    /\ result.value.source = Some("Mock Data")
    /\ Len(result.value.data) = Len(roster)
    /\ \A i \in 1..Len(roster) : result.value.data[i].name = roster[i]

\* C7: with an API key configured, when the real-endpoint request fails,
\* fetchStandings does not reject: it resolves with success = true and
\* mock-sourced data of the league's roster.
C7_FallbackToMock ==
    (/\ Running /\ call.module = "api"
     /\ call.key \notin {"null", "", "YOUR_API_KEY_HERE", "YOUR_MYSPORTSFEEDS_API_KEY_HERE"}
     /\ call.results["standings"].settled
     /\ RealRequestFailed(call.inputs["standings"].resp))
    => MockStandingsOf(call.results["standings"], teamsFor(call.league))

C7_Witness ==
    /\ Running /\ call.module = "api" /\ call.key = "k3y"
    /\ call.results["standings"].settled
    /\ call.inputs["standings"].resp.kind = "json"
    /\ RealRequestFailed(call.inputs["standings"].resp)
    /\ call.results["standings"].value.source = Some("Mock Data")

\* C8: with the API key unset or a placeholder, fetchStandings('nba') issues no
\* real-endpoint request and resolves mock-sourced with exactly the 12 NBA roster
\* names in roster order.
C8_UnconfiguredIsMock ==
    (/\ Running /\ call.module = "api" /\ call.league = "nba"
     /\ call.key \in {"null", "", "YOUR_API_KEY_HERE", "YOUR_MYSPORTSFEEDS_API_KEY_HERE"})
    => /\ call.requests = <<>>
       /\ call.results["standings"].settled =>
             /\ MockStandingsOf(call.results["standings"], NBA_TEAMS)
             /\ Len(call.results["standings"].value.data) = 12

C8_Witness ==
    /\ Running /\ call.module = "api" /\ call.league = "nba"
    /\ call.key = "YOUR_MYSPORTSFEEDS_API_KEY_HERE"
    /\ call.results["standings"].settled
    /\ call.results["standings"].value.data[12].name = "Raptors"

\* C9: every burst of invocations less than `wait` apart runs fn exactly once,
\* `wait` after the burst's last invocation and with its arguments, and at most
\* one invocation is pending at any time.
C9_Debounce ==
    deb.wait > 0 =>
        /\ Cardinality(deb.queue) <= 1
        /\ \A t \in deb.queue :
              /\ deb.execs = deb.bursts - 1
              /\ t.due = deb.last.at + deb.wait
              /\ t.args = deb.last.args
              /\ deb.timeout = Some(t.id)
        /\ deb.queue = {} =>
              /\ deb.execs = deb.bursts
              /\ deb.bursts > 0 =>
                    deb.lastExec = [at |-> deb.last.at + deb.wait, args |-> deb.last.args]

\* A second burst, of three invocations or more with different arguments, has run.
C9_Witness ==
    /\ deb.wait > 1 /\ deb.queue = {}
    /\ deb.bursts = 2 /\ deb.execs = 2 /\ deb.burstLen >= 3
    /\ deb.lastExec.args = "b" /\ deb.lastExec.at > deb.wait + 1

UnorderedPair(game) == {game.homeTeam, game.awayTeam}

\* C10: no two games of a generated list have the same unordered pair of teams,
\* and no game has one team as home and away.
C10_UniquePairs ==
    gen.pc # "off" =>
        /\ \A i, j \in 1..Len(gen.games) :
              i # j => UnorderedPair(gen.games[i]) # UnorderedPair(gen.games[j])
        /\ \A i \in 1..Len(gen.games) : gen.games[i].homeTeam # gen.games[i].awayTeam

\* The second draw of a run was the first pair the other way round, and it was
\* rejected: the loop goes on with one game in the list.
C10_Witness ==
    /\ gen.pc = "loop" /\ Len(gen.games) = 1 /\ gen.count = MaxCount
    /\ gen.homeTeam = gen.games[1].awayTeam /\ gen.awayTeam = gen.games[1].homeTeam
    /\ gen.pairKey \in gen.usedPairs

\* The step taken last called showNotification(message, ...).
Emitted(message) ==
    \E i \in 1..Len(lastOp.trace) : lastOp.trace[i] = "showNotification " \o message

\* text contains q, letter case aside
ContainsIgnoringCase(text, q) ==
    \E i \in 1..Len(text) :
        /\ i + Len(q) - 1 <= Len(text)
        /\ toLowerCase(SubSeq(text, i, i + Len(q) - 1)) = toLowerCase(q)

MatchingStandings(q) ==
    SelectSeq(state.allData.standings, LAMBDA team : ContainsIgnoringCase(team.name, q))

MatchingGames(q) ==
    SelectSeq(state.allData.games,
              LAMBDA game : \/ ContainsIgnoringCase(game.homeTeam, q)
                            \/ ContainsIgnoringCase(game.awayTeam, q))

\* handleSearch ran last, with a non-empty trimmed query and a cached dataset.
Searched == lastOp.op = "handleSearch" /\ trim(lastOp.arg) # "" /\ state.allData # Null

\* C11 as stated: handleSearch with a non-empty trimmed query q and a cached
\* dataset renders exactly the cached standings whose name contains q, the cached
\* games whose home or away team contains q (letter case aside) and the cached
\* stats, and emits 'No results found' exactly when both filtered lists are empty.
C11_Original ==
    Searched =>
        /\ ui.shown.stats = Some(state.allData.stats)
        /\ ui.shown.standings = Some(MatchingStandings(trim(lastOp.arg)))
        /\ ui.shown.games = Some(MatchingGames(trim(lastOp.arg)))
        /\ Emitted("No results found") <=>
              (Len(MatchingStandings(trim(lastOp.arg))) = 0
               /\ Len(MatchingGames(trim(lastOp.arg))) = 0)

\* C11, amended: the statement holds when the presentation update completes.
\* When it throws (Chart.js did not load) the stats and the filtered standings
\* have been written, the games list has not, and the notification is
\* 'Search failed' instead, whatever the filtered lists hold.
C11_SearchRenders ==
    Searched =>
        /\ ui.shown.stats = Some(state.allData.stats)
        /\ ui.shown.standings = Some(MatchingStandings(trim(lastOp.arg)))
        /\ env.chartLoaded =>
              /\ ui.shown.games = Some(MatchingGames(trim(lastOp.arg)))
              /\ ~Emitted("Search failed")
              /\ Emitted("No results found") <=>
                    (Len(MatchingStandings(trim(lastOp.arg))) = 0
                     /\ Len(MatchingGames(trim(lastOp.arg))) = 0)
        /\ ~env.chartLoaded =>
              /\ ui.shown.games = None
              /\ Emitted("Search failed")
              /\ ~Emitted("No results found")

\* A query that no team name of the standings contains and one game's team does:
\* the standings are rendered empty, the game is rendered, nothing is notified.
C11_Witness ==
    /\ Searched /\ env.chartLoaded
    /\ Len(state.allData.standings) > 0
    /\ ui.shown.standings = Some(<<>>)
    /\ \E games \in ui.shown.games : Len(games) = 1
    /\ lastOp.trace # <<>> /\ ~Emitted("No results found")

\* The step taken last called showNotification.
Notified ==
    \E i \in 1..Len(lastOp.trace) :
        /\ Len(lastOp.trace[i]) >= 16
        /\ SubSeq(lastOp.trace[i], 1, 16) = "showNotification"

\* handleSearch ran last, with an empty or whitespace-only query.
SearchedEmpty == lastOp.op = "handleSearch" /\ trim(lastOp.arg) = ""

\* C12 as stated: handleSearch with an empty or whitespace-only query re-renders
\* the last successfully fetched dataset unfiltered; with no dataset fetched yet
\* it renders nothing and emits no notification.
C12_Original ==
    SearchedEmpty =>
        IF state.allData # Null
        THEN /\ ui.shown.stats = Some(state.allData.stats)
             /\ ui.shown.standings = Some(state.allData.standings)
             /\ ui.shown.games = Some(state.allData.games)
        ELSE /\ ui.shown = [stats |-> None, standings |-> None, games |-> None]
             /\ ~Notified

C12_Restored ==
    SearchedEmpty =>
        /\ ~Notified
        /\ state.allData # Null =>
              /\ ui.shown.stats = Some(state.allData.stats)
              /\ ui.shown.standings = Some(state.allData.standings)
              /\ env.chartLoaded => ui.shown.games = Some(state.allData.games)
              /\ ~env.chartLoaded => ui.shown.games = None
        /\ state.allData = Null =>
              /\ ui.shown = [stats |-> None, standings |-> None, games |-> None]
              /\ lastOp.trace = <<>>

\* C12, amended: the statement holds when the presentation update completes,
\* whatever view was rendered before.  When it throws (Chart.js did not load) the
\* stats and the unfiltered standings have been written and the games list has
\* not; no notification is emitted.  With no dataset fetched yet the handler
\* changes nothing of the page or the state (the search field holds what was
\* typed into it).
C12_EmptyRestores ==
    /\ []C12_Restored
    /\ [][(lastOp'.op = "handleSearch" /\ trim(lastOp'.arg) = "" /\ state.allData = Null)
            => (/\ ui' = [ui EXCEPT !.searchInput = lastOp'.arg]
                /\ state' = state
                /\ fetches' = fetches)]_vars

\* The view before was a filtered one with nothing in it ('No results found' is
\* still the notification on the page); the whitespace-only query brought every
\* standing and game of the cached dataset back.
C12_Witness ==
    /\ SearchedEmpty /\ lastOp.arg = "  "
    /\ ui.toast.message = "No results found"
    /\ state.allData # Null
    /\ ui.shown.standings = Some(state.allData.standings)
    /\ ui.shown.games = Some(state.allData.games)
    /\ Len(state.allData.standings) = 12

\* C13: handleLeagueChange with the league that is current already leaves
\* state.currentLeague, state.allData and state.isLoading as they are, emits no
\* notification and starts no fetch.
C13_SameLeagueNoOp ==
    [][(lastOp'.op = "handleLeagueChange" /\ lastOp'.arg = state.currentLeague) =>
            /\ state' = state
            /\ ui' = ui
            /\ fetches' = fetches
            /\ counters' = counters
            /\ timers' = timers
            /\ lastOp'.trace = <<>>
      ]_vars

\* The league that was switched to and loaded is selected once more.
C13_Witness ==
    /\ lastOp.op = "handleLeagueChange" /\ lastOp.load = "none"
    /\ lastOp.arg = "nfl" /\ state.currentLeague = "nfl"
    /\ state.allData # Null /\ state.allData.league = "NFL"
    /\ ~state.isLoading /\ fetches = <<>>

\* the league's name as the notification shows it
Shouted(league) == CASE league = "nba" -> "NBA" [] league = "nfl" -> "NFL" [] OTHER -> "?"

\* C14: handleLeagueChange with a league other than the current one sets
\* state.currentLeague to it, then emits the 'Switching to ...' notification, then
\* calls loadData; the fetch that loadData starts is for the new league (loadData
\* starts none while another load is in flight).
C14_SwitchThenLoad ==
    [][(lastOp'.op = "handleLeagueChange" /\ lastOp'.arg # state.currentLeague) =>
            /\ state'.currentLeague = lastOp'.arg
            /\ ui'.toast = [message |-> "Switching to " \o Shouted(lastOp'.arg) \o "...",
                            type |-> "info"]
            /\ Len(lastOp'.trace) >= 3
            /\ SubSeq(lastOp'.trace, 1, 3) =
                  << "currentLeague = " \o lastOp'.arg,
                     "showNotification Switching to " \o Shouted(lastOp'.arg) \o "...",
                     "loadData" >>
            /\ IF state.isLoading
               THEN fetches' = fetches /\ lastOp'.load = "skipped"
               ELSE /\ lastOp'.load = "started"
                    /\ Len(fetches') = Len(fetches) + 1
                    /\ fetches'[Len(fetches')].league = lastOp'.arg
                    /\ state'.isLoading
      ]_vars

\* The league was switched with no load in flight, and the fetch is for it.
C14_Witness ==
    /\ lastOp.op = "handleLeagueChange" /\ lastOp.load = "started"
    /\ lastOp.arg = "nfl" /\ state.currentLeague = "nfl"
    /\ state.allData # Null /\ state.allData.league = "NBA"
    /\ Len(fetches) = 1 /\ fetches[1].league = "nfl"

Refreshing == "showNotification Refreshing data..."
Refreshed == "showNotification Data refreshed successfully!"

RefreshedToast == [message |-> "Data refreshed successfully!", type |-> "success"]

\* C15: handleRefresh emits 'Refreshing data...', calls loadData, and once
\* loadData has returned emits 'Data refreshed successfully!' whatever loadData
\* did: also when the load failed and the error panel is shown, and when
\* loadData returned at once because a load was in flight.
C15_RefreshAlwaysSucceeds ==
    /\ lastOp.op = "handleRefresh" =>
          /\ Len(lastOp.trace) >= 2
          /\ lastOp.trace[1] = Refreshing /\ lastOp.trace[2] = "loadData"
          /\ lastOp.load = "started" =>
                /\ lastOp.trace = <<Refreshing, "loadData", "fetchAllData">>
                /\ ui.toast = [message |-> "Refreshing data...", type |-> "info"]
          /\ lastOp.load = "skipped" =>
                /\ lastOp.trace = <<Refreshing, "loadData", Refreshed>>
                /\ ui.toast = RefreshedToast
    /\ (lastOp.op = "loadData" /\ lastOp.arg = "refresh") =>
          /\ lastOp.trace # <<>>
          /\ lastOp.trace[Len(lastOp.trace)] = Refreshed
          /\ ui.toast = RefreshedToast

\* The load of a refresh was rejected: the error panel is up and the success
\* notification is out.
C15_Witness ==
    /\ lastOp.op = "loadData" /\ lastOp.arg = "refresh" /\ lastOp.load = "rejected"
    /\ ~ui.errorHidden
    /\ ui.errorText = "Failed to load data: Network error: Unable to fetch standings"
    /\ ui.toast = RefreshedToast

DigitValue(c) == CHOOSE d \in 0..9 : charAt(Digits, d + 1) = c

IsDigit(c) == \E d \in 0..9 : charAt(Digits, d + 1) = c

\* s is a number written with exactly three decimals, such as "0.667"
ThreeDecimals(s) ==
    /\ Len(s) = 5
    /\ charAt(s, 2) = "."
    /\ \A i \in {1, 3, 4, 5} : IsDigit(charAt(s, i))

\* the thousandths that a string of ThreeDecimals stands for
Thousandths(s) ==
    1000 * DigitValue(charAt(s, 1)) + 100 * DigitValue(charAt(s, 3))
        + 10 * DigitValue(charAt(s, 4)) + DigitValue(charAt(s, 5))

Distance(a, b) == IF a < b THEN b - a ELSE a - b

\* C16: calculateWinPercentage(wins, losses) is "0.000" when wins + losses = 0;
\* otherwise it is written with exactly three decimals and no number of three
\* decimals is nearer to wins / (wins + losses); two calls with the same
\* arguments give the same result, whatever was called between them.
C16_WinPercentage ==
    fn.name = "calculateWinPercentage" =>
        /\ \A i \in 1..Len(fn.log) :
              LET c == fn.log[i]
                  total == c.wins + c.losses
              IN  /\ total = 0 => c.result = "0.000"
                  /\ total > 0 =>
                        /\ ThreeDecimals(c.result)
                        /\ 2 * Distance(1000 * c.wins, Thousandths(c.result) * total) <= total
        /\ \A i, j \in 1..Len(fn.log) :
              (fn.log[i].wins = fn.log[j].wins /\ fn.log[i].losses = fn.log[j].losses)
                  => fn.log[i].result = fn.log[j].result

\* 39 wins of 80 games is 0.4875, midway between two numbers of three decimals;
\* the call was repeated after a call with the arguments swapped.
C16_Witness ==
    /\ fn.name = "calculateWinPercentage" /\ Len(fn.log) = 3
    /\ fn.log[1] = [wins |-> 39, losses |-> 41, result |-> "0.487"]
    /\ fn.log[2] = [wins |-> 41, losses |-> 39, result |-> "0.512"]
    /\ fn.log[3] = fn.log[1]

\* the item has a named property whose string form contains q, letter case aside
Matches(item, properties, q) ==
    \E p \in 1..Len(properties) : ContainsIgnoringCase(String(item, properties[p]), q)

\* result is array without the items that `keep` leaves out, in array's order
IsSelection(result, array, keep(_)) ==
    LET kept == {i \in 1..Len(array) : keep(array[i])}
    IN  /\ Len(result) = Cardinality(kept)
        /\ \A i \in kept : result[Cardinality({j \in kept : j <= i})] = array[i]

\* C17: filterBySearch returns the array as it is when the trimmed term is empty;
\* otherwise it returns, in the array's order, exactly the items of which a named
\* property's string form contains the trimmed term, letter case aside, and so
\* the empty sequence when no property of any item does.
C17_FilterBySearch ==
    (fn.name = "filterBySearch" /\ fn.pc = "done") =>
        IF trim(fn.searchTerm) = ""
        THEN fn.result = fn.array
        ELSE /\ IsSelection(fn.result, fn.array,
                            LAMBDA item : Matches(item, fn.properties, trim(fn.searchTerm)))
             /\ (\A i \in 1..Len(fn.array) :
                    ~Matches(fn.array[i], fn.properties, trim(fn.searchTerm)))
                    => fn.result = <<>>

\* A term typed in capitals with spaces around it, and the second item of two is
\* the one that is kept.
C17_Witness ==
    /\ fn.name = "filterBySearch" /\ fn.pc = "done"
    /\ fn.searchTerm = " LA " /\ fn.properties = <<"name", "wins">>
    /\ Len(fn.array) = 2 /\ fn.array[1].name = "Celtics"
    /\ fn.result = << fn.array[2] >>

\* C18 as stated: every team standing that fetchStandings produces, from the mock
\* generator or from the real endpoint's answer, has wins + losses = gamesPlayed
\* and a win percentage that is wins / (wins + losses) to three decimals, zero
\* when no games were played.
C18_StandingInvariant ==
    (Running /\ call.module = "api" /\ SubResolved("standings")) =>
        \A i \in 1..Len(call.results["standings"].value.data) :
            LET team == call.results["standings"].value.data[i]
                total == team.wins + team.losses
            IN  /\ total = team.gamesPlayed
                /\ total = 0 => team.winPct = 0
                /\ total > 0 => 2 * Distance(1000 * team.wins, team.winPct * total) <= total

Canvases == {"performance-chart", "scoring-chart"}

LiveOn(u, canvas) == {c \in u.charts : c.canvas = canvas}

\* the place of event e in the trace of the step taken last, 0 when it is not there
PlaceOf(e, trace) ==
    IF \E i \in 1..Len(trace) : trace[i] = e
    THEN CHOOSE i \in 1..Len(trace) : trace[i] = e
    ELSE 0

\* C19: after any sequence of updateUI, createPerformanceChart and
\* createScoringChart calls each canvas has at most one live chart, the one the
\* module's reference holds, and a call that builds a chart on a canvas that has
\* a live one destroys that one first.
C19_OneChartPerSlot ==
    /\ [](\A canvas \in Canvases : Cardinality(LiveOn(ui, canvas)) <= 1)
    /\ [](/\ \A c \in LiveOn(ui, "performance-chart") : ui.performanceChart = Some(c.id)
          /\ \A c \in LiveOn(ui, "scoring-chart") : ui.scoringChart = Some(c.id))
    /\ [][\A canvas \in Canvases :
            (LiveOn(ui, canvas) # {} /\ PlaceOf("new Chart " \o canvas, lastOp'.trace) > 0) =>
                /\ PlaceOf("destroy " \o canvas, lastOp'.trace) > 0
                /\ PlaceOf("destroy " \o canvas, lastOp'.trace)
                     < PlaceOf("new Chart " \o canvas, lastOp'.trace)
         ]_vars

\* createPerformanceChart was called with both charts on the page: the old
\* performance chart was destroyed, the new one built, the scoring chart kept.
C19_Witness ==
    /\ lastOp.op = "call" /\ lastOp.arg = "createPerformanceChart"
    /\ lastOp.trace = <<"destroy performance-chart", "new Chart performance-chart">>
    /\ Cardinality(LiveOn(ui, "performance-chart")) = 1
    /\ Cardinality(LiveOn(ui, "scoring-chart")) = 1
    /\ state.allData # Null

InitialLoadInFlight == \E i \in 1..Len(fetches) : fetches[i].caller = "init"

\* C20: init creates the auto-refresh timer exactly once, and only when its
\* initial loadData has completed, resolved or not; no tick occurs while the
\* initial load is in flight; beforeunload clears the active timer and no tick
\* calls loadData afterwards.
C20_TimerAfterInitialLoad ==
    /\ [](counters.timer <= 1)
    /\ [](page \in {"loading", "init"} =>
              timers = {} /\ counters.timer = 0 /\ state.autoRefreshInterval = None)
    /\ [](page = "init" => InitialLoadInFlight)
    /\ [](InitialLoadInFlight => page \in {"init", "unloaded"})
    /\ [](page = "ready" =>
              /\ counters.timer = 1
              /\ state.autoRefreshInterval = Some(1)
              /\ timers = {1})
    /\ [](InitialLoadInFlight => timers = {} /\ lastOp.op # "autoRefresh")
    /\ [](\A i \in 1..Len(fetches) : fetches[i].caller = "timer" => ~InitialLoadInFlight)
    /\ [][counters'.timer # counters.timer =>
              /\ InitialLoadInFlight /\ ~InitialLoadInFlight'
              /\ lastOp'.op = "loadData" /\ lastOp'.arg = "init"
              /\ lastOp'.load \in {"resolved", "rejected", "threw"}
              /\ lastOp'.trace[Len(lastOp'.trace)] = "setInterval"
         ]_vars
    /\ [][page' = "unloaded" /\ page # "unloaded" =>
              /\ lastOp'.op = "beforeunload"
              /\ timers' = {}
         ]_vars
    /\ [](page = "unloaded" => timers = {})
    /\ [][page = "unloaded" => lastOp'.op # "autoRefresh" /\ fetches' = fetches]_vars

\* The initial load failed, the timer was created all the same, a tick of it
\* called loadData, and the page was unloaded with the timer active.
C20_Witness ==
    /\ page = "unloaded"
    /\ lastOp.op = "beforeunload"
    /\ counters.timer = 1
    /\ state.autoRefreshInterval = Some(1)
    /\ timers = {}
    /\ state.allData = Null
    /\ \E i \in 1..Len(fetches) : fetches[i].caller = "timer"

\* C21: whenever the controller is idle after a load that succeeded, the league
\* tag of state.allData is the upper-cased state.currentLeague.
C21_DatasetOfSelectedLeague ==
    (~state.isLoading /\ state.allData # Null /\ env.chartLoaded /\ ui.errorHidden) =>
        state.allData.league = toUpperCase(state.currentLeague)

\* the cached dataset as the query the search field was last submitted with
\* filters it
FilteredCache ==
    IF trim(ui.searchInput) = ""
    THEN [standings |-> state.allData.standings, games |-> state.allData.games]
    ELSE [standings |-> MatchingStandings(trim(ui.searchInput)),
          games |-> MatchingGames(trim(ui.searchInput))]

\* C22: after any sequence of search, refresh and auto-refresh events the
\* rendered standings and games are the cached dataset filtered by the query
\* last submitted to handleSearch; a load that succeeds while a non-empty query
\* is active does not put the unfiltered dataset in its place.  Stated for pages
\* on which Chart.js loaded, where every renderer runs.
C22_FilteredViewKept ==
    (env.chartLoaded /\ state.allData # Null) =>
        /\ ui.shown.standings = Some(FilteredCache.standings)
        /\ ui.shown.games = Some(FilteredCache.games)

\* C23: handleSearch changes nothing of the application state, whatever the
\* query: state.allData with the order of its elements, state.currentLeague,
\* state.isLoading and state.autoRefreshInterval are after the call what they
\* were before; and rendering, which sorts the standings, leaves the cached
\* standings in the order they were fetched in.
C23_SearchKeepsState ==
    /\ [][lastOp'.op = "handleSearch" => state' = state]_vars
    /\ [](state.allData = Null \/ state.allData \in Datasets)

\* handleSearch restored the dataset, whose standings are not in the order the
\* table shows them in, so that the sort of the renderers had teams to move.
C23_Witness ==
    /\ lastOp.op = "handleSearch"
    /\ trim(lastOp.arg) = ""
    /\ state.allData # Null
    /\ ui.shown.standings = Some(state.allData.standings)
    /\ sort(state.allData.standings, "winPct", FALSE) # state.allData.standings
    /\ state.allData \in Datasets

\* the step is the end of a loadData call whose fetch was in flight
LoadEnds == lastOp'.op = "loadData" /\ Len(fetches) = 1 /\ fetches' = <<>>

\* C24 as stated: whenever a loadData call ends by showing the error panel,
\* state.allData is the dataset it was before the call.  (No other load runs
\* between the start of a call and its end, and nothing else writes allData.)
C24_Original ==
    [][(LoadEnds /\ ~ui'.errorHidden) => state'.allData = state.allData]_vars

\* C24, amended: a loadData call whose fetch rejected ends by showing the error
\* panel with state.allData the dataset it was before the call; a call whose
\* fetch resolved and whose updateUI threw ends by showing the error panel with
\* state.allData the dataset just fetched.  Either way the dataset is one a
\* fetch resolved with, and a later empty search hands that one to the renderers.
C24_FailedLoadKeepsData ==
    /\ [][LoadEnds =>
            /\ ~ui'.errorHidden <=> lastOp'.load \in {"rejected", "threw"}
            /\ lastOp'.load = "rejected" => state'.allData = state.allData
            /\ lastOp'.load \in {"threw", "resolved"} =>
                  /\ state'.allData \in Datasets
                  /\ state'.allData.timestamp = fetches[1].id
                  /\ state'.allData.league = toUpperCase(fetches[1].league)
         ]_vars
    /\ [](state.allData = Null \/ state.allData \in Datasets)
    /\ []((lastOp.op = "handleSearch" /\ trim(lastOp.arg) = "" /\ state.allData # Null) =>
              ui.shown.standings = Some(state.allData.standings))

\* A load failed after one that succeeded: the error panel is shown and the
\* dataset of the earlier load is still there.
C24_Witness ==
    /\ lastOp.op = "loadData"
    /\ lastOp.load = "rejected"
    /\ ~ui.errorHidden
    /\ state.allData # Null
    /\ state.allData \in Datasets

\* the unordered pairs of the roster of the run: n(n-1)/2
PairsOf(teams) == (Len(teams) * (Len(teams) - 1)) \div 2

\* C25: for a roster of n >= 2 distinct teams and a count of at most n(n-1)/2,
\* generateMockGames returns, under fair random choice, and returns exactly
\* count games; for a count above the number of unordered pairs its
\* pair-selection loop never exits.
C25_TerminatesIffPairsSuffice ==
    /\ [](gen.count <= PairsOf(gen.teams) => <>(gen.pc = "done"))
    /\ [](gen.pc \in {"return", "done"} => Len(gen.games) = gen.count)
    /\ [](gen.count > PairsOf(gen.teams) => gen.pc = "loop")
    /\ [](gen.count > PairsOf(gen.teams) =>
              <>[](Len(gen.games) = PairsOf(gen.teams) /\ gen.i < gen.count))

\* A run on three teams and a count of three has returned: every pair is used.
C25_Witness ==
    /\ gen.pc = "done"
    /\ Len(gen.teams) = 3
    /\ gen.count = PairsOf(gen.teams)
    /\ Len(gen.games) = 3
    /\ Cardinality(gen.usedPairs) = 3

\* C26: in every state the controller reaches in which state.isLoading is false
\* the loading indicator is hidden and the main content is not dimmed, and the
\* loading indicator is visible only while a fetch that loadData started is in
\* flight.
C26_IdleShowsNoLoading ==
    /\ ~state.isLoading => ui.loadingHidden /\ ui.opacity # "0.5"
    /\ ~ui.loadingHidden => state.isLoading /\ Len(fetches) = 1

\* The load that a retry started has ended with the error panel: the controller
\* is idle, the indicator hidden, the dimming lifted.
C26_Witness ==
    /\ lastOp.op = "loadData" /\ lastOp.arg = "retry"
    /\ lastOp.load \in {"rejected", "threw"}
    /\ ~state.isLoading
    /\ ui.loadingHidden
    /\ ui.opacity = "1"
    /\ fetches = <<>>

====
